---- MODULE Spec2Model ----
(***************************************************************************)
(* Verification model of the XBRL pipeline of this repository.             *)
(*                                                                         *)
(* Part I models the cross-statement validator of                          *)
(* xbrl_validation/validators.py (class ACRAXBRLValidator) together with   *)
(* its entry point XBRLValidatorService.validate_xbrl_data.                *)
(* Part II models the term matcher and the structural extractor of         *)
(* xbrl_mapping/services/ai/tools.py, Part III the translation to storage  *)
(* names of xbrl_mapping/services/processors/storage.py, Part IV the       *)
(* taxonomy tagger of xbrl_tagging/services/tools.py, Part V the workflow  *)
(* orchestrator of xbrl_mapping/services/processors/workflow.py, Part VI   *)
(* the update processor of xbrl_mapping/services/processors/update.py.     *)
(* Each part has its own specification; the variables of the other parts   *)
(* stay Idle in it.                                                        *)
(*                                                                         *)
(* Conventions of the model                                                *)
(*   - a JSON value is a record [t, n, c, d]: t is the Python type         *)
(*     ("null", "num", "str", "dict"), n the number, c the characters of   *)
(*     a string, d the mapping of a dict (a function on key strings);      *)
(*   - amounts are counted in tenths (500 is written 5000), so that the    *)
(*     Decimal('0.1') of the code is the integer 1;                        *)
(*   - a Python exception is the name of its class, "" meaning none.       *)
(***************************************************************************)
EXTENDS Integers, Sequences, FiniteSets, TLC

VARIABLES data, pc, errors, taxonomy_version, result, raised,
          term, statement_type, match,
          extract_data, extract_results,
          pydantic_data_dict, mapped_data,
          tags_cache, tagging_calls, tagged, tagging_threads,
          workflow_call, task_status, request_thread, background_thread,
          workflow_log,
          update_call, stored_filing, update_thread

\* the variables of the term matcher, the extractor, the translator, the
\* tagger, the workflow orchestrator and the update processor
matcherVars == <<term, statement_type, match>>

extractorVars == <<extract_data, extract_results>>

storageVars == <<pydantic_data_dict, mapped_data>>

taggerVars == <<tags_cache, tagging_calls, tagged, tagging_threads>>

workflowVars ==
    <<workflow_call, task_status, request_thread, background_thread, workflow_log>>

updateVars == <<update_call, stored_filing, update_thread>>

componentVars ==
    <<matcherVars, extractorVars, storageVars, taggerVars, workflowVars, updateVars>>

vars == <<data, pc, errors, taxonomy_version, result, raised, componentVars>>

\* the value of a variable whose component is not running
Idle == <<>>

----------------------------------------------------------------------------
(* JSON values as Python sees them                                         *)

EmptyDict == [k \in {} |-> 0]

Null == [t |-> "null", n |-> 0, c |-> <<>>, d |-> EmptyDict]

Num(x) == [t |-> "num", n |-> x, c |-> <<>>, d |-> EmptyDict]

Str(cs) == [t |-> "str", n |-> 0, c |-> cs, d |-> EmptyDict]

Dict(f) == [t |-> "dict", n |-> 0, c |-> <<>>, d |-> f]

\* bool(v)
Truthy(v) ==
    CASE v.t = "null" -> FALSE
      [] v.t = "num"  -> v.n # 0
      [] v.t = "str"  -> v.c # <<>>
      [] v.t = "dict" -> DOMAIN v.d # {}

\* v != 0
NotEqualZero(v) == ~(v.t = "num" /\ v.n = 0)

\* the result of an expression: x is the exception it raised ("" if none)
Ok(v) == [x |-> "", v |-> v]

Raise(e) == [x |-> e, v |-> 0]

NoKey == ""

Min(S) == CHOOSE m \in S : \A o \in S : m <= o

Abs(i) == IF i < 0 THEN -i ELSE i

\* `k in v` raises TypeError when v is None or a number
InRaises(v) == v.t \in {"null", "num"}

\* next((k for k in keys if k in v), None), for a v on which `in` works
FirstKey(keys, v) ==
    IF v.t # "dict" THEN NoKey
    ELSE LET idx == {i \in 1..Len(keys) : keys[i] \in DOMAIN v.d}
         IN  IF idx = {} THEN NoKey ELSE keys[Min(idx)]

\* v.get(k, default) on a dict v
Get(v, k, default) == IF k \in DOMAIN v.d THEN v.d[k] ELSE default

\* Decimal(str(v)): only a number converts (the strings of the model's
\* documents are never numerals)
ToDecimal(v) == IF v.t = "num" THEN Ok(v.n) ELSE Raise("InvalidOperation")

----------------------------------------------------------------------------
(* Characters and the string functions the validator uses                  *)

UpperLetters ==
    <<"A","B","C","D","E","F","G","H","I","J","K","L","M",
      "N","O","P","Q","R","S","T","U","V","W","X","Y","Z">>

LowerLetters ==
    <<"a","b","c","d","e","f","g","h","i","j","k","l","m",
      "n","o","p","q","r","s","t","u","v","w","x","y","z">>

Range(s) == {s[i] : i \in 1..Len(s)}

DigitChars == {"0","1","2","3","4","5","6","7","8","9"}

UpperChars == Range(UpperLetters)

LowerChars == Range(LowerLetters)

WhitespaceChars == {" ", "\n", "\t"}

IndexIn(s, ch) == CHOOSE i \in 1..Len(s) : s[i] = ch

ToUpperChar(ch) == IF ch \in LowerChars THEN UpperLetters[IndexIn(LowerLetters, ch)] ELSE ch

ToLowerChar(ch) == IF ch \in UpperChars THEN LowerLetters[IndexIn(UpperLetters, ch)] ELSE ch

IsCased(ch) == ch \in UpperChars \cup LowerChars

\* str.strip()
RECURSIVE LStrip(_)
LStrip(s) == IF s # <<>> /\ Head(s) \in WhitespaceChars THEN LStrip(Tail(s)) ELSE s

RECURSIVE RStrip(_)
RStrip(s) ==
    IF s # <<>> /\ s[Len(s)] \in WhitespaceChars
    THEN RStrip(SubSeq(s, 1, Len(s) - 1)) ELSE s

Strip(s) == RStrip(LStrip(s))

\* str.title(): a cased character is upper-cased when the character before
\* it is not cased, lower-cased otherwise
Title(s) ==
    [i \in 1..Len(s) |->
        IF ~IsCased(s[i]) THEN s[i]
        ELSE IF i > 1 /\ IsCased(s[i-1]) THEN ToLowerChar(s[i])
        ELSE ToUpperChar(s[i])]

\* re.match('^' + classes + '$', s): one character class per position; `$`
\* matches at the end of the string and also just before a final newline
ReMatch(classes, s) ==
    /\ \/ Len(s) = Len(classes)
       \/ Len(s) = Len(classes) + 1 /\ s[Len(s)] = "\n"
    /\ \A i \in 1..Len(classes) : s[i] \in classes[i]

Rep(n, class) == [i \in 1..n |-> class]

----------------------------------------------------------------------------
(* self.errors and the state of a running check                            *)

\* ACRAXBRLValidator._add_error
_add_error(errs, section, message) ==
    IF section \in DOMAIN errs
    THEN [errs EXCEPT ![section] = Append(@, message)]
    ELSE errs @@ (section :> <<message>>)

\* the state threaded through the statements of a check: self.errors and
\* the exception raised so far; once an exception is raised the remaining
\* statements of the check are not executed
St(errs) == [errors |-> errs, exc |-> ""]

AddError(st, section, message) ==
    IF st.exc # "" THEN st
    ELSE [st EXCEPT !.errors = _add_error(@, section, message)]

Throw(st, e) == IF st.exc # "" THEN st ELSE [st EXCEPT !.exc = e]

FirstExc(rs) ==
    LET bad == {i \in 1..Len(rs) : rs[i].x # ""}
    IN  IF bad = {} THEN "" ELSE rs[Min(bad)].x

----------------------------------------------------------------------------
(* Field validators of the filing information                              *)

NoMsg == ""

_validate_non_empty(value) ==
    IF ~Truthy(value) THEN Ok("Value cannot be empty") ELSE Ok(NoMsg)

business_pattern == Rep(8, DigitChars) \o <<UpperChars>>

local_company_pattern ==
    { <<{"1"}, {"9"}>> \o Rep(2, DigitChars) \o Rep(5, DigitChars) \o <<UpperChars>>,
      <<{"2"}, {"0"}>> \o Rep(2, DigitChars) \o Rep(5, DigitChars) \o <<UpperChars>> }

other_entity_pattern ==
    <<{"T", "S", "R"}>> \o Rep(2, DigitChars) \o Rep(2, UpperChars)
        \o Rep(4, DigitChars) \o <<UpperChars>>

UenMatches(cs) ==
    \/ ReMatch(business_pattern, cs)
    \/ \E p \in local_company_pattern : ReMatch(p, cs)
    \/ ReMatch(other_entity_pattern, cs)

_validate_uen(uen) ==
    IF ~Truthy(uen) THEN Ok("UEN is required")
    ELSE IF uen.t # "str" THEN Raise("TypeError")
    ELSE IF ~UenMatches(uen.c) THEN Ok("Invalid UEN format")
    ELSE Ok(NoMsg)

date_pattern ==
    Rep(4, DigitChars) \o <<{"-"}>> \o Rep(2, DigitChars) \o <<{"-"}>> \o Rep(2, DigitChars)

_validate_date(date) ==
    IF ~Truthy(date) THEN Ok("Date is required")
    ELSE IF date.t # "str" THEN Raise("TypeError")
    ELSE IF ~ReMatch(date_pattern, date.c) THEN Ok("Invalid date format (should be YYYY-MM-DD)")
    ELSE Ok(NoMsg)

sFull == <<"F","u","l","l">>

sPartial == <<"P","a","r","t","i","a","l">>

sCompany == <<"C","o","m","p","a","n","y">>

sConsolidated == <<"C","o","n","s","o","l","i","d","a","t","e","d">>

_validate_filing_type(filing_type) ==
    IF ~Truthy(filing_type) THEN Ok("Filing type is required")
    ELSE IF filing_type.t # "str" THEN Raise("AttributeError")
    ELSE IF Title(Strip(filing_type.c)) \notin {sFull, sPartial}
         THEN Ok("Invalid filing type")
    ELSE Ok(NoMsg)

_validate_statement_type(stmt_type) ==
    IF ~Truthy(stmt_type) THEN Ok("Statement type is required")
    ELSE IF stmt_type.t # "str" THEN Raise("AttributeError")
    ELSE IF Title(Strip(stmt_type.c)) \notin {sCompany, sConsolidated}
         THEN Ok("Invalid statement type")
    ELSE Ok(NoMsg)

\* required_validations, in the order of the dict
required_fields ==
    <<"company_name", "unique_entity_number", "current_period_start",
      "current_period_end", "xbrl_filing_type", "financial_statement_type">>

field_mapping ==
    [company_name |-> <<"company_name", "NameOfCompany">>,
     unique_entity_number |-> <<"unique_entity_number", "UniqueEntityNumber">>,
     current_period_start |-> <<"current_period_start", "CurrentPeriodStartDate">>,
     current_period_end |-> <<"current_period_end", "CurrentPeriodEndDate">>,
     xbrl_filing_type |-> <<"xbrl_filing_type", "TypeOfXBRLFiling">>,
     financial_statement_type |->
        <<"financial_statement_type",
          "NatureOfFinancialStatementsCompanyLevelOrConsolidated">>]

required_validations(expected_field, value) ==
    CASE expected_field = "company_name" -> _validate_non_empty(value)
      [] expected_field = "unique_entity_number" -> _validate_uen(value)
      [] expected_field = "current_period_start" -> _validate_date(value)
      [] expected_field = "current_period_end" -> _validate_date(value)
      [] expected_field = "xbrl_filing_type" -> _validate_filing_type(value)
      [] expected_field = "financial_statement_type" -> _validate_statement_type(value)

FilingInformationKeys == <<"FilingInformation", "filing_information">>

\* the section the filing information check reads
FilingInfoRead(d) == Get(d, "FilingInformation", Dict(EmptyDict))

\* one iteration of the loop over required_validations
CheckRequiredField(st, filing_info, expected_field) ==
    IF st.exc # "" THEN st
    ELSE IF InRaises(filing_info) THEN Throw(st, "TypeError")
    ELSE LET field_name == FirstKey(field_mapping[expected_field], filing_info)
         IN  IF field_name = NoKey
             THEN AddError(st, "FilingInformation",
                           "Missing required field: " \o expected_field)
             ELSE LET r == required_validations(expected_field, filing_info.d[field_name])
                  IN  IF r.x # "" THEN Throw(st, r.x)
                      ELSE IF r.v # NoMsg
                           THEN AddError(st, "FilingInformation",
                                         expected_field \o ": " \o r.v)
                           ELSE st

RECURSIVE CheckRequiredFields(_, _, _)
CheckRequiredFields(st, filing_info, i) ==
    IF i > Len(required_fields) THEN st
    ELSE CheckRequiredFields(
            CheckRequiredField(st, filing_info, required_fields[i]),
            filing_info, i + 1)

_validate_filing_information(st, d) ==
    CheckRequiredFields(st, FilingInfoRead(d), 1)

----------------------------------------------------------------------------
(* Section checks                                                          *)

SfpKeys == <<"StatementOfFinancialPosition", "statement_of_financial_position">>

required_sections == {"FilingInformation", "StatementOfFinancialPosition", "IncomeStatement"}

section_mapping ==
    [FilingInformation |-> <<"FilingInformation", "filing_information">>,
     StatementOfFinancialPosition |->
        <<"StatementOfFinancialPosition", "statement_of_financial_position">>,
     IncomeStatement |-> <<"IncomeStatement", "income_statement">>,
     DirectorsStatement |-> <<"DirectorsStatement", "directors_statement">>,
     AuditReport |-> <<"AuditReport", "audit_report">>,
     Notes |-> <<"Notes", "notes">>]

_validate_required_sections(st, d) ==
    IF InRaises(d) THEN Throw(st, "TypeError")
    ELSE LET missing_sections ==
                {r \in required_sections : FirstKey(section_mapping[r], d) = NoKey}
         IN  IF missing_sections # {}
             THEN AddError(st, "structure", "Missing required section(s)")
             ELSE st

sThousands == <<"T","h","o","u","s","a","n","d","s">>

sMillions == <<"M","i","l","l","i","o","n","s">>

sBillions == <<"B","i","l","l","i","o","n","s">>

sUnits == <<"U","n","i","t","s">>

\* Decimal('0.1'), in tenths
DefaultTolerance == 1

\* Decimal('1'), in tenths
ThousandsTolerance == 10

\* the factor Decimal('1000') applied to Decimal('0.1')
MillionsFactor == 1000

\* the factor Decimal('1000000') applied to Decimal('0.1')
BillionsFactor == 1000000

RoundingKeys ==
    <<"LevelOfRoundingUsedInFinancialStatements",
      "level_of_rounding_used_in_financial_statements">>

\* the rounding tolerance the arithmetic checks derive from the filing
\* information (the same statements in three checks)
RoundingTolerance(d) ==
    LET filing_info_key == FirstKey(FilingInformationKeys, d)
    IN  IF filing_info_key = NoKey THEN Ok(DefaultTolerance)
        ELSE LET filing_info == d.d[filing_info_key]
             IN  IF InRaises(filing_info) THEN Raise("TypeError")
                 ELSE LET rounding_field == FirstKey(RoundingKeys, filing_info)
                      IN  IF rounding_field = NoKey THEN Ok(DefaultTolerance)
                          ELSE LET rounding == filing_info.d[rounding_field]
                               IN  IF rounding.t # "str" THEN Ok(DefaultTolerance)
                                   ELSE IF rounding.c = sThousands THEN Ok(ThousandsTolerance)
                                   ELSE IF rounding.c = sMillions
                                        THEN Ok(DefaultTolerance * MillionsFactor)
                                   ELSE IF rounding.c = sBillions
                                        THEN Ok(DefaultTolerance * BillionsFactor)
                                   ELSE Ok(DefaultTolerance)

\* abs(difference) > rounding_tolerance
\* the comparison with >= in place of >
ExceedsOrEqual(difference, tolerance) == Abs(difference) >= tolerance

Exceeds(difference, tolerance) == Abs(difference) > tolerance

\* the total read from a sub-section of the financial position: 0 when the
\* sub-section or its total is absent or null
SectionTotal(financial_position, section_keys, total_keys) ==
    LET section_key == FirstKey(section_keys, financial_position)
    IN  IF section_key = NoKey THEN Ok(0)
        ELSE LET section == financial_position.d[section_key]
             IN  IF InRaises(section) THEN Raise("TypeError")
                 ELSE LET total_key == FirstKey(total_keys, section)
                      IN  IF total_key = NoKey THEN Ok(0)
                          ELSE IF section.d[total_key].t = "null" THEN Ok(0)
                          ELSE ToDecimal(section.d[total_key])

\* a total read from the financial position itself
FieldTotal(financial_position, keys) ==
    LET key == FirstKey(keys, financial_position)
    IN  IF key = NoKey THEN Ok(0)
        ELSE IF financial_position.d[key].t = "null" THEN Ok(0)
        ELSE ToDecimal(financial_position.d[key])

CurrentAssetsKeys == <<"CurrentAssets", "current_assets">>

TotalCurrentAssetsKeys == <<"CurrentAssets", "current_assets", "total_current_assets">>

AssetsKeys == <<"Assets", "assets", "total_assets">>

LiabilitiesKeys == <<"Liabilities", "liabilities", "total_liabilities">>

EquityKeys == <<"Equity", "equity">>

TotalEquityKeys == <<"Equity", "equity", "total_equity">>

\* the key lists of _validate_financial_position for the non-current assets
SfpNonCurrentAssetsKeys == <<"NonCurrentAssets", "non_current_assets", "noncurrent_assets">>

SfpTotalNonCurrentAssetsKeys ==
    <<"NonCurrentAssets", "non_current_assets", "noncurrent_assets",
      "total_noncurrent_assets", "total_non_current_assets">>

\* the key lists of _validate_cross_statement_consistency for the same
CrossNonCurrentAssetsKeys ==
    <<"NonCurrentAssets", "NoncurrentAssets", "non_current_assets", "noncurrent_assets">>

CrossTotalNonCurrentAssetsKeys ==
    <<"NonCurrentAssets", "NoncurrentAssets", "non_current_assets",
      "noncurrent_assets", "total_non_current_assets", "total_noncurrent_assets">>

MsgAssetsSum ==
    "Total assets does not equal the sum of current assets and non-current assets"

MsgEquation == "Assets must equal Liabilities plus Equity"

\* the two comparisons shared by _validate_financial_position and
\* _validate_cross_statement_consistency: the totals are evaluated in the
\* order given, the first error is added before liabilities and equity are
\* read
BalanceChecks(st, d, financial_position, noncurrent_keys, total_noncurrent_keys) ==
    IF InRaises(financial_position) THEN Throw(st, "TypeError")
    ELSE
    LET total_current_assets ==
            SectionTotal(financial_position, CurrentAssetsKeys, TotalCurrentAssetsKeys)
        total_noncurrent_assets ==
            SectionTotal(financial_position, noncurrent_keys, total_noncurrent_keys)
        total_assets == FieldTotal(financial_position, AssetsKeys)
        rounding_tolerance == RoundingTolerance(d)
        e1 == FirstExc(<<total_current_assets, total_noncurrent_assets,
                         total_assets, rounding_tolerance>>)
        total_liabilities == FieldTotal(financial_position, LiabilitiesKeys)
        total_equity == SectionTotal(financial_position, EquityKeys, TotalEquityKeys)
        e2 == FirstExc(<<total_liabilities, total_equity>>)
    IN  IF e1 # "" THEN Throw(st, e1)
        ELSE LET st1 ==
                    IF Exceeds(total_current_assets.v + total_noncurrent_assets.v
                                  - total_assets.v, rounding_tolerance.v)
                    THEN AddError(st, "StatementOfFinancialPosition", MsgAssetsSum)
                    ELSE st
             IN  IF e2 # "" THEN Throw(st1, e2)
                 ELSE IF Exceeds(total_liabilities.v + total_equity.v - total_assets.v,
                                 rounding_tolerance.v)
                      THEN AddError(st1, "StatementOfFinancialPosition", MsgEquation)
                      ELSE st1

_validate_financial_position(st, d) ==
    LET sfp_key == FirstKey(SfpKeys, d)
    IN  IF sfp_key = NoKey THEN st
        ELSE BalanceChecks(st, d, d.d[sfp_key],
                           SfpNonCurrentAssetsKeys, SfpTotalNonCurrentAssetsKeys)

\* the body of the try block of _validate_cross_statement_consistency
CrossStatementBody(st, d) ==
    IF InRaises(d) THEN Throw(st, "TypeError")
    ELSE LET sfp_key == FirstKey(SfpKeys, d)
         IN  IF sfp_key = NoKey THEN st
             ELSE BalanceChecks(st, d, d.d[sfp_key],
                                CrossNonCurrentAssetsKeys, CrossTotalNonCurrentAssetsKeys)

\* _validate_cross_statement_consistency catches its own exceptions
_validate_cross_statement_consistency(st, d) ==
    LET r == CrossStatementBody(st, d)
    IN  IF r.exc # ""
        THEN St(_add_error(r.errors, "general",
                           "Error validating cross statement consistency: " \o r.exc))
        ELSE r

\* Decimal('0.1') in tenths, the fixed tolerance of the income statement,
\* cash flow and changes-in-equity comparisons
PointOne == 1

\* Decimal('0.5') in tenths
PointFive == 5

\* Decimal(str(section.get(key, 0)))
DecGet(section, key) == ToDecimal(Get(section, key, Num(0)))

\* `key in section and section[key] != 0`, for a section on which `in` works
PresentNonZero(section, key) ==
    section.t = "dict" /\ key \in DOMAIN section.d /\ NotEqualZero(section.d[key])

_validate_income_statement(st, d) ==
    LET income_statement == Get(d, "income_statement", Dict(EmptyDict))
    IN  IF InRaises(income_statement) THEN Throw(st, "TypeError")
        ELSE
        LET has_profit == PresentNonZero(income_statement, "profit_loss")
            has_revenue == PresentNonZero(income_statement, "revenue")
            st1 == IF has_profit /\ ~has_revenue
                   THEN AddError(st, "income_statement",
                                 "Revenue should be reported when profit exists")
                   ELSE st
        IN  IF income_statement.t # "dict" \/ "profit_loss" \notin DOMAIN income_statement.d
            THEN st1
            ELSE
            LET reported_profit == DecGet(income_statement, "profit_loss")
                reported_revenue == DecGet(income_statement, "revenue")
                reported_expenses == DecGet(income_statement, "total_expenses")
                other_income ==
                    IF "other_income" \in DOMAIN income_statement.d
                    THEN DecGet(income_statement, "other_income") ELSE Ok(0)
                e == FirstExc(<<reported_profit, reported_revenue,
                                reported_expenses, other_income>>)
            IN  IF e # "" THEN Throw(st1, e)
                ELSE IF Exceeds(reported_revenue.v - reported_expenses.v
                                   + other_income.v - reported_profit.v, PointOne)
                     THEN AddError(st1, "income_statement",
                            "Profit/Loss does not match calculation from revenue and expenses")
                     ELSE st1

_validate_cash_flows(st, d) ==
    LET cash_flows == Get(d, "statement_of_cash_flows", Dict(EmptyDict))
    IN  IF cash_flows.t # "dict" THEN Throw(st, "AttributeError")
        ELSE
        LET opening_cash == DecGet(cash_flows, "cash_and_cash_equivalents_beginning_period")
            net_increase ==
                DecGet(cash_flows, "net_increase_decrease_in_cash_and_cash_equivalents")
            closing_cash == DecGet(cash_flows, "cash_and_cash_equivalents_end_period")
            e1 == FirstExc(<<opening_cash, net_increase, closing_cash>>)
            operating_cash ==
                DecGet(cash_flows, "net_cash_flows_from_used_in_operating_activities")
            investing_cash ==
                DecGet(cash_flows, "net_cash_flows_from_used_in_investing_activities")
            financing_cash ==
                DecGet(cash_flows, "net_cash_flows_from_used_in_financing_activities")
            e2 == FirstExc(<<operating_cash, investing_cash, financing_cash>>)
            exchange_effect ==
                DecGet(cash_flows,
                       "effect_of_exchange_rate_changes_on_cash_and_cash_equivalents")
        IN  IF e1 # "" THEN Throw(st, e1)
            ELSE
            LET st1 == IF Exceeds(opening_cash.v + net_increase.v - closing_cash.v, PointOne)
                       THEN AddError(st, "statement_of_cash_flows",
                              "Closing cash does not equal opening cash plus net change")
                       ELSE st
                calculated_net_cash == operating_cash.v + investing_cash.v + financing_cash.v
            IN  IF e2 # "" THEN Throw(st1, e2)
                ELSE IF ~Exceeds(calculated_net_cash - net_increase.v, PointFive) THEN st1
                ELSE IF exchange_effect.x # "" THEN Throw(st1, exchange_effect.x)
                ELSE IF Exceeds(calculated_net_cash + exchange_effect.v - net_increase.v,
                                PointOne)
                     THEN AddError(st1, "statement_of_cash_flows",
                            "Net increase in cash does not equal sum of activities")
                     ELSE st1

_validate_changes_in_equity(st, d) ==
    LET changes_in_equity == Get(d, "statement_of_changes_in_equity", Dict(EmptyDict))
    IN  IF changes_in_equity.t # "dict" THEN Throw(st, "AttributeError")
        ELSE
        LET opening_equity == DecGet(changes_in_equity, "total_equity_beginning_period")
            total_changes == DecGet(changes_in_equity, "total_changes_in_equity")
            closing_equity == DecGet(changes_in_equity, "total_equity_end_period")
            e1 == FirstExc(<<opening_equity, total_changes, closing_equity>>)
        IN  IF e1 # "" THEN Throw(st, e1)
            ELSE
            LET st1 == IF Exceeds(opening_equity.v + total_changes.v - closing_equity.v,
                                  PointOne)
                       THEN AddError(st, "statement_of_changes_in_equity",
                              "Closing equity does not equal opening equity plus total changes")
                       ELSE st
            IN  IF ~("profit_loss_attributable_to_owners" \in DOMAIN changes_in_equity.d
                     /\ "income_statement" \in DOMAIN d.d)
                THEN st1
                ELSE
                LET equity_profit ==
                        DecGet(changes_in_equity, "profit_loss_attributable_to_owners")
                    income_statement == d.d["income_statement"]
                    income_profit ==
                        IF income_statement.t # "dict" THEN Raise("AttributeError")
                        ELSE DecGet(income_statement, "profit_loss")
                    e2 == FirstExc(<<equity_profit, income_profit>>)
                IN  IF e2 # "" THEN Throw(st1, e2)
                    ELSE IF /\ equity_profit.v # 0
                            /\ income_profit.v # 0
                            /\ Exceeds(equity_profit.v - income_profit.v, PointOne)
                         THEN AddError(st1, "statement_of_changes_in_equity",
                                "Profit/loss does not match profit/loss in income statement")
                         ELSE st1

NotesKeys == <<"Notes", "notes">>

ReceivablesNotesKeys == <<"TradeAndOtherReceivables", "trade_and_other_receivables">>

ReceivablesSfpKeys ==
    <<"TradeAndOtherReceivablesCurrent", "trade_and_other_receivables_current",
      "trade_and_other_receivables">>

CurrentLiabilitiesKeys == <<"CurrentLiabilities", "current_liabilities">>

NonCurrentLiabilitiesKeys == <<"NonCurrentLiabilities", "non_current_liabilities">>

PayablesCurrentKeys == <<"TradeAndOtherPayablesCurrent", "trade_and_other_payables_current">>

PayablesNoncurrentKeys ==
    <<"TradeAndOtherPayablesNoncurrent", "trade_and_other_payables_noncurrent">>

\* part 1 of _validate_notes, executed when the financial position is
\* present: the receivables of the notes against those of the statement
NotesReceivables(st, d, notes, financial_position) ==
    IF InRaises(notes) THEN Throw(st, "TypeError")
    ELSE
    LET receivables_notes_key == FirstKey(ReceivablesNotesKeys, notes)
    IN  IF receivables_notes_key = NoKey THEN st
        ELSE
        LET receivables_notes == notes.d[receivables_notes_key]
        IN  IF InRaises(receivables_notes) THEN Throw(st, "TypeError")
            ELSE
            LET notes_total_key == FirstKey(ReceivablesNotesKeys, receivables_notes)
            IN  IF notes_total_key = NoKey THEN st
                ELSE IF receivables_notes.d[notes_total_key].t = "null" THEN st
                ELSE
                LET notes_total == ToDecimal(receivables_notes.d[notes_total_key])
                IN  IF notes_total.x # "" THEN Throw(st, notes_total.x)
                    ELSE IF InRaises(financial_position) THEN Throw(st, "TypeError")
                    ELSE
                    LET current_assets_key == FirstKey(CurrentAssetsKeys, financial_position)
                    IN  IF current_assets_key = NoKey THEN st
                        ELSE
                        LET current_assets == financial_position.d[current_assets_key]
                        IN  IF InRaises(current_assets) THEN Throw(st, "TypeError")
                            ELSE
                            LET receivables_sfp_key ==
                                    FirstKey(ReceivablesSfpKeys, current_assets)
                            IN  IF receivables_sfp_key = NoKey THEN st
                                ELSE IF current_assets.d[receivables_sfp_key].t = "null"
                                     THEN st
                                ELSE
                                LET statement_total ==
                                        ToDecimal(current_assets.d[receivables_sfp_key])
                                    rounding_tolerance == RoundingTolerance(d)
                                    e == FirstExc(<<statement_total, rounding_tolerance>>)
                                IN  IF e # "" THEN Throw(st, e)
                                    ELSE IF Exceeds(notes_total.v - statement_total.v,
                                                    rounding_tolerance.v)
                                         THEN AddError(st, "Notes",
                                                "Trade and other receivables in notes does not match the value in statement of financial position")
                                         ELSE st

\* one of the two null guards of part 2 of _validate_notes
PayablesNullGuard(st, financial_position, section_keys, payables_keys, section, message) ==
    IF st.exc # "" THEN st
    ELSE IF InRaises(financial_position) THEN Throw(st, "TypeError")
    ELSE
    LET liabilities_key == FirstKey(section_keys, financial_position)
    IN  IF liabilities_key = NoKey THEN st
        ELSE
        LET liabilities == financial_position.d[liabilities_key]
        IN  IF InRaises(liabilities) THEN Throw(st, "TypeError")
            ELSE
            LET payables_key == FirstKey(payables_keys, liabilities)
            IN  IF payables_key # NoKey /\ liabilities.d[payables_key].t = "null"
                THEN AddError(st, section, message)
                ELSE st

\* part 2 of _validate_notes: financial_position is the local variable
\* that part 1 binds only when the financial position is present
NotesNullGuards(st, sfp_bound, financial_position) ==
    IF st.exc # "" THEN st
    ELSE IF ~sfp_bound THEN Throw(st, "NameError")
    ELSE PayablesNullGuard(
            PayablesNullGuard(st, financial_position,
                CurrentLiabilitiesKeys, PayablesCurrentKeys,
                "StatementOfFinancialPosition.CurrentLiabilities",
                "TradeAndOtherPayablesCurrent should not be null"),
            financial_position,
            NonCurrentLiabilitiesKeys, PayablesNoncurrentKeys,
            "StatementOfFinancialPosition.NonCurrentLiabilities",
            "TradeAndOtherPayablesNoncurrent should not be null")

_validate_notes(st, d) ==
    LET notes_key == FirstKey(NotesKeys, d)
    IN  IF notes_key = NoKey THEN st
        ELSE
        LET notes == d.d[notes_key]
            sfp_key == FirstKey(SfpKeys, d)
            financial_position == IF sfp_key = NoKey THEN Null ELSE d.d[sfp_key]
            st1 == IF sfp_key = NoKey THEN st
                   ELSE NotesReceivables(st, d, notes, financial_position)
        IN  NotesNullGuards(st1, sfp_key # NoKey, financial_position)

\* _convert_to_snake_case, on the five names the validator applies it to
_convert_to_snake_case(camel_case) ==
    CASE camel_case = "WhetherInDirectorsOpinionFinancialStatementsAreDrawnUpSoAsToExhibitATrueAndFairView"
            -> "whether_in_directors_opinion_financial_statements_are_drawn_up_so_as_to_exhibit_a_true_and_fair_view"
      [] camel_case = "WhetherThereAreReasonableGroundsToBelieveThatCompanyWillBeAbleToPayItsDebtsAsAndWhenTheyFallDueAtDateOfStatement"
            -> "whether_there_are_reasonable_grounds_to_believe_that_company_will_be_able_to_pay_its_debts_as_and_when_they_fall_due_at_date_of_statement"
      [] camel_case = "TypeOfAuditOpinionInIndependentAuditorsReport"
            -> "type_of_audit_opinion_in_independent_auditors_report"
      [] camel_case = "DescriptionOfPresentationCurrency"
            -> "description_of_presentation_currency"
      [] camel_case = "LevelOfRoundingUsedInFinancialStatements"
            -> "level_of_rounding_used_in_financial_statements"

directors_required_fields ==
    <<"WhetherInDirectorsOpinionFinancialStatementsAreDrawnUpSoAsToExhibitATrueAndFairView",
      "WhetherThereAreReasonableGroundsToBelieveThatCompanyWillBeAbleToPayItsDebtsAsAndWhenTheyFallDueAtDateOfStatement">>

\* one iteration of the loop of _validate_directors_statement
CheckDirectorsField(st, directors_statement, field) ==
    IF st.exc # "" THEN st
    ELSE IF InRaises(directors_statement) THEN Throw(st, "TypeError")
    ELSE
    LET snake_case == _convert_to_snake_case(field)
        keys == IF directors_statement.t = "dict" THEN DOMAIN directors_statement.d ELSE {}
    IN  IF field \notin keys /\ snake_case \notin keys
        THEN AddError(st, "DirectorsStatement", "Missing required field: " \o field)
        ELSE IF \/ field \in keys /\ directors_statement.d[field].t = "null"
                \/ snake_case \in keys /\ directors_statement.d[snake_case].t = "null"
             THEN AddError(st, "DirectorsStatement", "Field " \o field \o " must not be null")
             ELSE st

_validate_directors_statement(st, d) ==
    LET ds_key == FirstKey(<<"DirectorsStatement", "directors_statement">>, d)
    IN  IF ds_key = NoKey THEN st
        ELSE CheckDirectorsField(
                CheckDirectorsField(st, d.d[ds_key], directors_required_fields[1]),
                d.d[ds_key], directors_required_fields[2])

\* the value found under a PascalCase field name or else under its
\* snake_case form, None when under neither
FieldOrSnake(section, field) ==
    IF InRaises(section) THEN Raise("TypeError")
    ELSE IF section.t # "dict" THEN Ok(Null)
    ELSE IF field \in DOMAIN section.d THEN Ok(section.d[field])
    ELSE IF _convert_to_snake_case(field) \in DOMAIN section.d
         THEN Ok(section.d[_convert_to_snake_case(field)])
    ELSE Ok(Null)

\* `value and value not in allowed`: a dict is unhashable
TruthyNotIn(value, allowed) ==
    IF ~Truthy(value) THEN Ok(FALSE)
    ELSE IF value.t = "dict" THEN Raise("TypeError")
    ELSE Ok(~(value.t = "str" /\ value.c \in allowed))

valid_opinions ==
    { <<"U","n","q","u","a","l","i","f","i","e","d">>,
      <<"Q","u","a","l","i","f","i","e","d">>,
      <<"A","d","v","e","r","s","e">>,
      <<"D","i","s","c","l","a","i","m","e","r">> }

_validate_audit_report(st, d) ==
    LET ar_key == FirstKey(<<"AuditReport", "audit_report">>, d)
    IN  IF ar_key = NoKey THEN st
        ELSE
        LET opinion == FieldOrSnake(d.d[ar_key],
                                    "TypeOfAuditOpinionInIndependentAuditorsReport")
        IN  IF opinion.x # "" THEN Throw(st, opinion.x)
            ELSE LET bad == TruthyNotIn(opinion.v, valid_opinions)
                 IN  IF bad.x # "" THEN Throw(st, bad.x)
                     ELSE IF bad.v THEN AddError(st, "AuditReport", "Invalid audit opinion")
                     ELSE st

valid_currencies ==
    { <<"S","G","D">>, <<"U","S","D">>, <<"E","U","R">>, <<"G","B","P">>, <<"J","P","Y">>,
      <<"C","N","Y">>, <<"H","K","D">>, <<"A","U","D">>, <<"I","N","R">>, <<"M","Y","R">> }

valid_rounding_levels == {sUnits, sThousands, sMillions, sBillions}

_validate_data_formatting(st, d) ==
    LET filing_info_key == FirstKey(FilingInformationKeys, d)
    IN  IF filing_info_key = NoKey THEN st
        ELSE
        LET filing_info == d.d[filing_info_key]
            currency == FieldOrSnake(filing_info, "DescriptionOfPresentationCurrency")
            rounding == FieldOrSnake(filing_info, "LevelOfRoundingUsedInFinancialStatements")
        IN  IF currency.x # "" THEN Throw(st, currency.x)
            ELSE
            LET bad_currency == TruthyNotIn(currency.v, valid_currencies)
            IN  IF bad_currency.x # "" THEN Throw(st, bad_currency.x)
                ELSE
                LET st1 == IF bad_currency.v
                           THEN AddError(st, "FilingInformation",
                                         "Invalid presentation currency")
                           ELSE st
                    bad_rounding == TruthyNotIn(rounding.v, valid_rounding_levels)
                IN  IF bad_rounding.x # "" THEN Throw(st1, bad_rounding.x)
                    ELSE IF bad_rounding.v
                         THEN AddError(st1, "FilingInformation", "Invalid rounding level")
                         ELSE st1

----------------------------------------------------------------------------
(* The validator object, validate() and the service entry point            *)

valid_versions == { <<"2","0","2","2">>, <<"2","0","2","2",".","2">> }

default_version == <<"2","0","2","2",".","2">>

\* ACRAXBRLValidator._get_taxonomy_version, called by __init__
_get_taxonomy_version(d) ==
    IF InRaises(d) THEN Raise("TypeError")
    ELSE
    LET name == FirstKey(FilingInformationKeys, d)
        filing_info == IF name = NoKey THEN Null ELSE d.d[name]
    IN  IF ~Truthy(filing_info) THEN Ok(default_version)
        ELSE IF filing_info.t # "dict" THEN Raise("AttributeError")
        ELSE
        LET version == Get(filing_info, "TaxonomyVersion",
                           Get(filing_info, "taxonomy_version", Null))
        IN  IF version.t = "dict" THEN Raise("TypeError")
            ELSE IF version.t = "str" /\ version.c \in valid_versions THEN Ok(version.c)
            ELSE Ok(default_version)

\* the checks of validate(), in the order of the try block
CheckOrder ==
    <<"required", "filing", "position", "income", "cash_flows", "changes_in_equity",
      "notes", "directors", "audit", "cross", "formatting">>

NextPc(p) ==
    LET i == CHOOSE j \in 1..Len(CheckOrder) : CheckOrder[j] = p
    IN  IF i = Len(CheckOrder) THEN "return" ELSE CheckOrder[i + 1]

HasKey(d, keys) == FirstKey(keys, d) # NoKey

\* one statement of the try block of validate(): the guard on the section
\* key and the call of the check
CheckAt(p, st, d) ==
    CASE p = "required" -> _validate_required_sections(st, d)
      [] p = "filing" ->
            IF HasKey(d, FilingInformationKeys)
            THEN _validate_filing_information(st, d) ELSE st
      [] p = "position" ->
            IF HasKey(d, SfpKeys) THEN _validate_financial_position(st, d) ELSE st
      [] p = "income" ->
            IF HasKey(d, <<"IncomeStatement", "income_statement">>)
            THEN _validate_income_statement(st, d) ELSE st
      [] p = "cash_flows" ->
            IF HasKey(d, <<"StatementOfCashFlows", "statement_of_cash_flows">>)
            THEN _validate_cash_flows(st, d) ELSE st
      [] p = "changes_in_equity" ->
            IF HasKey(d, <<"StatementOfChangesInEquity", "statement_of_changes_in_equity">>)
            THEN _validate_changes_in_equity(st, d) ELSE st
      [] p = "notes" ->
            IF HasKey(d, NotesKeys) THEN _validate_notes(st, d) ELSE st
      [] p = "directors" ->
            IF HasKey(d, <<"DirectorsStatement", "directors_statement">>)
            THEN _validate_directors_statement(st, d) ELSE st
      [] p = "audit" ->
            IF HasKey(d, <<"AuditReport", "audit_report">>)
            THEN _validate_audit_report(st, d) ELSE st
      [] p = "cross" -> _validate_cross_statement_consistency(st, d)
      [] p = "formatting" -> _validate_data_formatting(st, d)

\* the except clause of validate()
\* an except clause that only logs
ValidateExceptLogOnly(errs, e) == errs

ValidateExcept(errs, e) == _add_error(errs, "general", "Validation error: " \o e)

\* len(self.errors) == 0
\* a return value that tolerates one section with errors
IsValidUpToOne(errs) == Cardinality(DOMAIN errs) <= 1

IsValid(errs) == Cardinality(DOMAIN errs) = 0

\* what validate_xbrl_data hands back: a returned pair, or (exception # "")
\* an exception that leaves the call
Returned(is_valid, errs) == [is_valid |-> is_valid, errors |-> errs, exception |-> ""]

\* the except clauses of XBRLValidatorService.validate_xbrl_data
ServiceExcept(e) ==
    Returned(FALSE,
        "general" :> << CASE e = "TypeError" -> "Type error during validation"
                          [] e = "AttributeError" -> "Attribute error during validation"
                          [] OTHER -> "An error occurred during validation" >>)

NoResult == [is_valid |-> FALSE, errors |-> EmptyDict, exception |-> "pending"]

\* validate_xbrl_data constructs the validator; an exception of __init__
\* is handled by the service
Construct ==
    /\ pc = "start"
    /\ LET version == _get_taxonomy_version(data)
       IN  IF version.x # ""
           THEN /\ result' = ServiceExcept(version.x)
                /\ raised' = Append(raised, version.x)
                /\ pc' = "done"
                /\ UNCHANGED <<errors, taxonomy_version>>
           ELSE /\ taxonomy_version' = version.v
                /\ errors' = EmptyDict
                /\ pc' = "required"
                /\ UNCHANGED <<result, raised>>
    /\ UNCHANGED <<data, componentVars>>

\* one check of validate(); an exception leaves the try block
Step(p) ==
    /\ pc = p
    /\ LET st == CheckAt(p, St(errors), data)
       IN  IF st.exc # ""
           THEN /\ errors' = ValidateExcept(st.errors, st.exc)
                /\ raised' = Append(raised, st.exc)
                /\ pc' = "return"
           ELSE /\ errors' = st.errors
                /\ raised' = IF p = "cross" /\ CrossStatementBody(St(errors), data).exc # ""
                             THEN Append(raised, CrossStatementBody(St(errors), data).exc)
                             ELSE raised
                /\ pc' = NextPc(p)
    /\ UNCHANGED <<data, taxonomy_version, result, componentVars>>

ValidateRequiredSections == Step("required")

ValidateFilingInformation == Step("filing")

ValidateFinancialPosition == Step("position")

ValidateIncomeStatement == Step("income")

ValidateCashFlows == Step("cash_flows")

ValidateChangesInEquity == Step("changes_in_equity")

ValidateNotes == Step("notes")

ValidateDirectorsStatement == Step("directors")

ValidateAuditReport == Step("audit")

ValidateCrossStatementConsistency == Step("cross")

ValidateDataFormatting == Step("formatting")

\* return len(self.errors) == 0, self.errors
Return ==
    /\ pc = "return"
    /\ result' = Returned(IsValid(errors), errors)
    /\ pc' = "done"
    /\ UNCHANGED <<data, errors, taxonomy_version, raised, componentVars>>

\* the whole of validator.validate() on a document, as a function
RECURSIVE RunChecks(_, _, _)
RunChecks(p, errs, d) ==
    IF p = "return" THEN errs
    ELSE LET st == CheckAt(p, St(errs), d)
         IN  IF st.exc # "" THEN ValidateExcept(st.errors, st.exc)
             ELSE RunChecks(NextPc(p), st.errors, d)

\* the whole of validate_xbrl_data on a document, as a function
validate_xbrl_data(d) ==
    LET version == _get_taxonomy_version(d)
    IN  IF version.x # "" THEN ServiceExcept(version.x)
        ELSE LET errs == RunChecks("required", EmptyDict, d)
             IN  Returned(IsValid(errs), errs)

----------------------------------------------------------------------------
(* The two naming conventions: the canonical names of the mapping agent's  *)
(* output and the storage names map_pydantic_to_django_fields gives them   *)
(* (the entries of the tables for the fields the documents below use)      *)

filing_info_mapping ==
    [NameOfCompany |-> "company_name",
     UniqueEntityNumber |-> "unique_entity_number",
     CurrentPeriodStartDate |-> "current_period_start",
     CurrentPeriodEndDate |-> "current_period_end",
     TypeOfXBRLFiling |-> "xbrl_filing_type",
     NatureOfFinancialStatementsCompanyLevelOrConsolidated |-> "financial_statement_type",
     DescriptionOfPresentationCurrency |-> "presentation_currency",
     LevelOfRoundingUsedInFinancialStatements |-> "rounding_level",
     TaxonomyVersion |-> "taxonomy_version"]

current_assets_mapping ==
    [TradeAndOtherReceivablesCurrent |-> "trade_and_other_receivables",
     CurrentAssets |-> "total_current_assets"]

noncurrent_assets_mapping == [NoncurrentAssets |-> "total_noncurrent_assets"]

current_liabilities_mapping ==
    [TradeAndOtherPayablesCurrent |-> "trade_and_other_payables",
     CurrentLiabilities |-> "total_current_liabilities"]

noncurrent_liabilities_mapping ==
    [TradeAndOtherPayablesNoncurrent |-> "trade_and_other_payables",
     NoncurrentLiabilities |-> "total_noncurrent_liabilities"]

equity_mapping == [Equity |-> "total_equity"]

income_statement_mapping ==
    [Revenue |-> "revenue", OtherIncome |-> "other_income", ProfitLoss |-> "profit_loss"]

\* the keys of the financial position: its two totals and its sub-sections
financial_position_mapping ==
    [Assets |-> "total_assets", Liabilities |-> "total_liabilities",
     CurrentAssets |-> "current_assets", NonCurrentAssets |-> "noncurrent_assets",
     CurrentLiabilities |-> "current_liabilities",
     NonCurrentLiabilities |-> "noncurrent_liabilities", Equity |-> "equity"]

subsection_mapping ==
    [CurrentAssets |-> current_assets_mapping,
     NonCurrentAssets |-> noncurrent_assets_mapping,
     CurrentLiabilities |-> current_liabilities_mapping,
     NonCurrentLiabilities |-> noncurrent_liabilities_mapping,
     Equity |-> equity_mapping]

top_level_mapping ==
    [FilingInformation |-> "filing_information",
     StatementOfFinancialPosition |-> "statement_of_financial_position",
     IncomeStatement |-> "income_statement"]

\* the loop of the translation over one table: the keys of the dict v that
\* the table m names are copied under their storage names, the others are
\* left out
RenameKeys(v, m) ==
    IF v.t # "dict" THEN v
    ELSE Dict([nk \in {m[k] : k \in DOMAIN v.d \cap DOMAIN m} |->
                  v.d[CHOOSE k \in DOMAIN v.d \cap DOMAIN m : m[k] = nk]])

\* a canonical financial position written in storage names
SfpInStorageNames(v) ==
    IF v.t # "dict" THEN v
    ELSE RenameKeys(
            Dict([k \in DOMAIN v.d |->
                    IF k \in DOMAIN subsection_mapping
                    THEN RenameKeys(v.d[k], subsection_mapping[k])
                    ELSE v.d[k]]),
            financial_position_mapping)

\* the document d with its canonical section sec, if it has one, written
\* under the storage names (section key and field keys)
InStorageNames(d, sec) ==
    IF d.t # "dict" \/ sec \notin DOMAIN d.d THEN d
    ELSE LET renamed ==
                CASE sec = "FilingInformation" -> RenameKeys(d.d[sec], filing_info_mapping)
                  [] sec = "StatementOfFinancialPosition" -> SfpInStorageNames(d.d[sec])
                  [] sec = "IncomeStatement" -> RenameKeys(d.d[sec], income_statement_mapping)
         IN  Dict([k \in (DOMAIN d.d \ {sec}) \cup {top_level_mapping[sec]} |->
                      IF k = top_level_mapping[sec] THEN renamed ELSE d.d[k]])

NamedSections == {"FilingInformation", "StatementOfFinancialPosition", "IncomeStatement"}

RECURSIVE InStorageNamesAll(_, _)
InStorageNamesAll(d, secs) ==
    IF secs = {} THEN d
    ELSE LET sec == CHOOSE x \in secs : TRUE
         IN  InStorageNamesAll(InStorageNames(d, sec), secs \ {sec})

----------------------------------------------------------------------------
(* The documents validate_xbrl_data is called on                           *)

With(f, k, v) == (k :> v) @@ f

Without(f, k) == [x \in DOMAIN f \ {k} |-> f[x]]

\* d with the field k of its section sec set to v
WithField(d, sec, k, v) == Dict(With(d.d, sec, Dict(With(d.d[sec].d, k, v))))

sUenLocal == <<"2","0","1","9","1","2","3","4","5","D">>

sUenBusiness == <<"5","3","3","3","3","4","4","4","A">>

sUenOther == <<"T","1","3","L","L","1","2","3","4","J">>

sUenInvalid == <<"I","N","V","A","L","I","D","_","U","E","N">>

sPeriodStart == <<"2","0","2","3","-","0","1","-","0","1">>

sPeriodEnd == <<"2","0","2","3","-","1","2","-","3","1">>

sName == <<"A","c","m","e">>

\* a filing information that passes every field check, in canonical names
CanonicalFilingInformation(uen) ==
    Dict([NameOfCompany |-> Str(sName),
          UniqueEntityNumber |-> uen,
          CurrentPeriodStartDate |-> Str(sPeriodStart),
          CurrentPeriodEndDate |-> Str(sPeriodEnd),
          TypeOfXBRLFiling |-> Str(sFull),
          NatureOfFinancialStatementsCompanyLevelOrConsolidated |-> Str(sCompany)])

\* a financial position in canonical names (amounts in tenths)
CanonicalFinancialPosition(ca, nca, assets, cl, ncl, liabilities, equity) ==
    Dict([CurrentAssets |-> Dict([CurrentAssets |-> Num(ca)]),
          NonCurrentAssets |-> Dict([NoncurrentAssets |-> Num(nca)]),
          Assets |-> Num(assets),
          CurrentLiabilities |-> Dict([CurrentLiabilities |-> Num(cl)]),
          NonCurrentLiabilities |-> Dict([NoncurrentLiabilities |-> Num(ncl)]),
          Liabilities |-> Num(liabilities),
          Equity |-> Dict([Equity |-> Num(equity)])])

\* the balance example: 500 + 500 = 1000 = 500 + 500
BalancedPosition == CanonicalFinancialPosition(5000, 5000, 10000, 3000, 2000, 5000, 5000)

CanonicalIncomeStatement(revenue, profit) ==
    Dict([Revenue |-> Num(revenue), ProfitLoss |-> Num(profit)])

Document(filing_information, financial_position, income_statement) ==
    Dict([FilingInformation |-> filing_information,
          StatementOfFinancialPosition |-> financial_position,
          IncomeStatement |-> income_statement])

\* a canonical document that breaks no rule
BaseDocument ==
    Document(CanonicalFilingInformation(Str(sUenLocal)), BalancedPosition,
             CanonicalIncomeStatement(10000, 10000))

\* the same document with the financial position in the storage names,
\* under which both arithmetic checks read every total
BaseStorageSfp == InStorageNames(BaseDocument, "StatementOfFinancialPosition")

(* Family 1: canonical documents and their storage-named writings, section *)
(* by section                                                              *)
DocsNaming ==
    { InStorageNamesAll(Document(CanonicalFilingInformation(Str(uen)), sfp, inc), secs) :
        uen \in {sUenLocal, sUenInvalid},
        sfp \in {BalancedPosition,
                 CanonicalFinancialPosition(5000, 5000, 9000, 3000, 2000, 5000, 5000)},
        inc \in {CanonicalIncomeStatement(10000, 10000), CanonicalIncomeStatement(0, 1000)},
        secs \in SUBSET NamedSections }

(* Family 2: amounts around the rounding tolerances                        *)

\* how far around each tolerance the differences go
MaxDelta == 1

Tolerances ==
    {DefaultTolerance, ThousandsTolerance,
     DefaultTolerance * MillionsFactor, DefaultTolerance * BillionsFactor}

Deltas ==
    {0} \cup {t + j : t \in Tolerances, j \in -MaxDelta..MaxDelta}
        \cup {-(t + j) : t \in Tolerances, j \in -MaxDelta..MaxDelta}

\* the pairs (assets-sum difference, equation difference) the family covers
DeltaPairs ==
    {<<a, 0>> : a \in Deltas} \cup {<<0, b>> : b \in Deltas} \cup {<<a, a>> : a \in Deltas}

sHundreds == <<"H","u","n","d","r","e","d","s">>

RoundingLevels == {sUnits, sThousands, sMillions, sBillions, sHundreds}

\* total assets of the family, large enough for every difference
ToleranceAssets == 20 * BillionsFactor

\* the financial position, in storage names, whose current and non-current
\* assets sum to assets + da and whose liabilities and equity to assets + de
TolerancePosition(da, de) ==
    SfpInStorageNames(
        CanonicalFinancialPosition(5000, ToleranceAssets - 5000 + da, ToleranceAssets,
                                   3000, 2000, 5000, ToleranceAssets - 5000 + de))

DocsTolerance ==
    { Document(CanonicalFilingInformation(Str(sUenLocal)),
               TolerancePosition(dp[1], dp[2]),
               CanonicalIncomeStatement(10000, 10000)) : dp \in DeltaPairs }
    \cup
    { Document(Dict(With(CanonicalFilingInformation(Str(sUenLocal)).d, key, Str(level))),
               TolerancePosition(dp[1], dp[2]),
               CanonicalIncomeStatement(10000, 10000)) :
        key \in Range(RoundingKeys), level \in RoundingLevels, dp \in DeltaPairs }

(* Family 3: the liabilities totals                                        *)
DocsLiabilities ==
    { Dict(With(d.d, "StatementOfFinancialPosition",
                CanonicalFinancialPosition(5000, 5000, 10000, cl, ncl, 5000, 5000)))
        : d \in {BaseDocument}, cl \in {3000, 2000}, ncl \in {2000, 3000, 0} }
    \cup
    { InStorageNames(
        Dict(With(BaseDocument.d, "StatementOfFinancialPosition",
                  CanonicalFinancialPosition(5000, 5000, 10000, cl, ncl, 5000, 5000))),
        "StatementOfFinancialPosition") : cl \in {3000, 2000}, ncl \in {2000, 3000, 0} }

(* Family 4: the payables null guard, with and without a Notes section     *)

\* d with the field k of the sub-section of its financial position found
\* under one of section_keys set to v
WithSfpField(d, section_keys, k, v) ==
    LET sfp_key == FirstKey(SfpKeys, d)
        sfp == d.d[sfp_key]
        section_key == FirstKey(section_keys, sfp)
    IN  Dict(With(d.d, sfp_key,
            Dict(With(sfp.d, section_key, Dict(With(sfp.d[section_key].d, k, v))))))

NotesWithReceivables(amount) ==
    Dict([TradeAndOtherReceivables |-> Dict([TradeAndOtherReceivables |-> Num(amount)])])

NotesChoices ==
    { <<NoKey, Null>>, <<"Notes", Dict(EmptyDict)>>, <<"notes", NotesWithReceivables(1000)>>,
      <<"Notes", NotesWithReceivables(2000)>> }

WithNotes(d, choice) == IF choice[1] = NoKey THEN d ELSE Dict(With(d.d, choice[1], choice[2]))

PayablesChoices ==
    { <<<<"CurrentLiabilities", "current_liabilities">>, k>> : k \in Range(PayablesCurrentKeys) }
    \cup
    { <<<<"NonCurrentLiabilities", "noncurrent_liabilities">>, k>> :
        k \in Range(PayablesNoncurrentKeys) }

DocsPayables ==
    { WithNotes(
        WithSfpField(
            WithSfpField(base, <<"CurrentAssets", "current_assets">>,
                         "TradeAndOtherReceivablesCurrent", Num(1000)),
            pay[1], pay[2], v),
        notes) :
        base \in {BaseDocument, BaseStorageSfp}, pay \in PayablesChoices,
        v \in {Null, Num(1000)}, notes \in NotesChoices }

(* Family 5: the income statement under both section keys and both field   *)
(* namings                                                                 *)

Absent == [t |-> "absent", n |-> 0, c |-> <<>>, d |-> EmptyDict]

\* the dict with the given fields, those whose value is Absent left out
DictOf(f) == Dict([k \in {x \in DOMAIN f : f[x].t # "absent"} |-> f[k]])

IncomeValues == {Absent, Null, Num(0), Num(1000)}

DocsIncome ==
    { Dict(With(Without(BaseStorageSfp.d, "IncomeStatement"), section_key,
                IF canonical_fields
                THEN DictOf([Revenue |-> revenue, ProfitLoss |-> profit])
                ELSE DictOf([revenue |-> revenue, profit_loss |-> profit]))) :
        section_key \in {"IncomeStatement", "income_statement"},
        canonical_fields \in BOOLEAN,
        revenue \in IncomeValues \ {Null}, profit \in IncomeValues }

(* Family 6: unique entity numbers                                         *)

\* how many single-character edits are applied to a well-formed number
MaxEdits == 1

EditChars == {"0", "A", "a", "\n"}

OneEdit(cs) ==
    { [cs EXCEPT ![i] = ch] : i \in 1..Len(cs), ch \in EditChars }
    \cup { Append(cs, ch) : ch \in EditChars }
    \cup { <<ch>> \o cs : ch \in EditChars }
    \cup { SubSeq(cs, 1, Len(cs) - 1) }

RECURSIVE Edited(_, _)
Edited(S, n) == IF n = 0 THEN S ELSE Edited(S \cup UNION {OneEdit(cs) : cs \in S}, n - 1)

UenStrings == Edited({sUenLocal, sUenBusiness, sUenOther}, MaxEdits) \cup {sUenInvalid, <<>>}

DocsUen ==
    { Dict(With(BaseStorageSfp.d, "FilingInformation", CanonicalFilingInformation(uen))) :
        uen \in {Str(cs) : cs \in UenStrings} \cup {Null, Num(0), Num(12345)} }

(* Family 7: documents with missing sections, wrong types and values that *)
(* break a later check                                                     *)

\* how many defects one document of the family combines
MaxDefects == 2

sXXX == <<"X","X","X">>

sClean == <<"C","l","e","a","n">>

sText == <<"n","/","a">>

Defects ==
    <<"no_position", "notes_empty", "notes_null", "profit_null", "uen_number",
      "bad_currency", "bad_opinion", "directors_empty", "directors_null_field",
      "filing_null", "filing_text", "cash_flows", "cash_flows_null",
      "changes_in_equity", "assets_text", "equity_null", "no_income">>

\* the document d with one defect
Defect(d, name) ==
    LET has_filing == "FilingInformation" \in DOMAIN d.d /\ d.d["FilingInformation"].t = "dict"
        sfp_key == FirstKey(SfpKeys, d)
    IN
    CASE name = "no_position" -> Dict(Without(d.d, "statement_of_financial_position"))
      [] name = "notes_empty" -> Dict(With(d.d, "Notes", Dict(EmptyDict)))
      [] name = "notes_null" -> Dict(With(d.d, "notes", Null))
      [] name = "profit_null" ->
            Dict(With(Without(d.d, "IncomeStatement"), "income_statement",
                      Dict([revenue |-> Num(10000), profit_loss |-> Null])))
      [] name = "uen_number" ->
            IF has_filing THEN WithField(d, "FilingInformation", "UniqueEntityNumber", Num(12345))
            ELSE d
      [] name = "bad_currency" ->
            IF has_filing
            THEN WithField(d, "FilingInformation", "DescriptionOfPresentationCurrency", Str(sXXX))
            ELSE d
      [] name = "bad_opinion" ->
            Dict(With(d.d, "AuditReport",
                      Dict([TypeOfAuditOpinionInIndependentAuditorsReport |-> Str(sClean)])))
      [] name = "directors_empty" -> Dict(With(d.d, "DirectorsStatement", Dict(EmptyDict)))
      [] name = "directors_null_field" ->
            Dict(With(d.d, "directors_statement",
                Dict((directors_required_fields[1] :> Null)
                     @@ (_convert_to_snake_case(directors_required_fields[2]) :> Num(1)))))
      [] name = "filing_null" -> Dict(With(d.d, "FilingInformation", Null))
      [] name = "filing_text" -> Dict(With(d.d, "FilingInformation", Str(sText)))
      [] name = "cash_flows" ->
            Dict(With(d.d, "statement_of_cash_flows",
                Dict([cash_and_cash_equivalents_beginning_period |-> Num(1000),
                      net_increase_decrease_in_cash_and_cash_equivalents |-> Num(500),
                      cash_and_cash_equivalents_end_period |-> Num(2000),
                      net_cash_flows_from_used_in_operating_activities |-> Num(600),
                      effect_of_exchange_rate_changes_on_cash_and_cash_equivalents
                          |-> Num(-50)])))
      [] name = "cash_flows_null" -> Dict(With(d.d, "statement_of_cash_flows", Null))
      [] name = "changes_in_equity" ->
            Dict(With(d.d, "statement_of_changes_in_equity",
                Dict([total_equity_beginning_period |-> Num(1000),
                      total_changes_in_equity |-> Num(500),
                      total_equity_end_period |-> Num(1400),
                      profit_loss_attributable_to_owners |-> Num(500)])))
      [] name = "assets_text" ->
            IF sfp_key # NoKey /\ d.d[sfp_key].t = "dict"
            THEN WithField(d, sfp_key, "total_assets", Str(sText)) ELSE d
      [] name = "equity_null" ->
            IF sfp_key # NoKey /\ d.d[sfp_key].t = "dict"
            THEN WithField(d, sfp_key, "equity", Null) ELSE d
      [] name = "no_income" -> Dict(Without(d.d, "IncomeStatement"))

RECURSIVE WithDefects(_, _, _)
WithDefects(d, chosen, i) ==
    IF i > Len(Defects) THEN d
    ELSE WithDefects(IF i \in chosen THEN Defect(d, Defects[i]) ELSE d, chosen, i + 1)

DocsMalformed ==
    { WithDefects(BaseStorageSfp, chosen, 1) :
        chosen \in {c \in SUBSET (1..Len(Defects)) : Cardinality(c) <= MaxDefects} }
    \cup {Null, Str(sText), Dict(EmptyDict)}

Documents ==
    DocsNaming \cup DocsTolerance \cup DocsLiabilities \cup DocsPayables
        \cup DocsIncome \cup DocsUen \cup DocsMalformed

----------------------------------------------------------------------------
(* The specification: one call of validate_xbrl_data per document          *)

Init ==
    /\ data \in Documents
    /\ pc = "start"
    /\ errors = EmptyDict
    /\ taxonomy_version = <<>>
    /\ result = NoResult
    /\ raised = <<>>
    /\ term = Idle /\ statement_type = Idle /\ match = Idle
    /\ extract_data = Idle /\ extract_results = Idle
    /\ pydantic_data_dict = Idle /\ mapped_data = Idle
    /\ tags_cache = Idle /\ tagging_calls = Idle /\ tagged = Idle
    /\ tagging_threads = Idle
    /\ workflow_call = Idle /\ task_status = Idle /\ request_thread = Idle
    /\ background_thread = Idle /\ workflow_log = Idle
    /\ update_call = Idle /\ stored_filing = Idle /\ update_thread = Idle

Next ==
    \/ Construct
    \/ ValidateRequiredSections
    \/ ValidateFilingInformation
    \/ ValidateFinancialPosition
    \/ ValidateIncomeStatement
    \/ ValidateCashFlows
    \/ ValidateChangesInEquity
    \/ ValidateNotes
    \/ ValidateDirectorsStatement
    \/ ValidateAuditReport
    \/ ValidateCrossStatementConsistency
    \/ ValidateDataFormatting
    \/ Return

Spec == Init /\ [][Next]_vars

----------------------------------------------------------------------------
(* What a document says, read by the names of either convention            *)

\* the value v holds for the canonical name k, written either as k or as
\* the storage name m[k]
Written(v, m, k) ==
    IF v.t # "dict" THEN Absent
    ELSE IF k \in DOMAIN v.d THEN v.d[k]
    ELSE IF m[k] \in DOMAIN v.d THEN v.d[m[k]]
    ELSE Absent

PositionOf(d) == Written(d, top_level_mapping, "StatementOfFinancialPosition")

IncomeOf(d) == Written(d, top_level_mapping, "IncomeStatement")

FilingOf(d) == Written(d, top_level_mapping, "FilingInformation")

SubSectionOf(d, sub) == Written(PositionOf(d), financial_position_mapping, sub)

SubTotalOf(d, sub, total) == Written(SubSectionOf(d, sub), subsection_mapping[sub], total)

PositionTotalOf(d, total) == Written(PositionOf(d), financial_position_mapping, total)

IsAmount(v) == v.t = "num"

\* the rounding level a filing declares, under the canonical name or its
\* snake_case form
DeclaredLevel(d) ==
    LET filing == FilingOf(d)
    IN  IF filing.t # "dict" THEN Absent
        ELSE IF RoundingKeys[1] \in DOMAIN filing.d THEN filing.d[RoundingKeys[1]]
        ELSE IF RoundingKeys[2] \in DOMAIN filing.d THEN filing.d[RoundingKeys[2]]
        ELSE Absent

\* the tolerance of a rounding level, in tenths: 0.1, 1, 100, 100000
LevelTolerance(level) ==
    CASE level = sUnits -> 1
      [] level = sThousands -> 10
      [] level = sMillions -> 1000
      [] level = sBillions -> 1000000

Messages(errs) == UNION {Range(errs[sec]) : sec \in DOMAIN errs}

Count(seq, x) == Cardinality({i \in 1..Len(seq) : seq[i] = x})

PositionErrors ==
    IF "StatementOfFinancialPosition" \in DOMAIN result.errors
    THEN result.errors["StatementOfFinancialPosition"] ELSE <<>>

\* the call reached validate(): the validator was constructed
Validated == pc = "done" /\ taxonomy_version # <<>>

----------------------------------------------------------------------------
(* Properties of the validator                                            *)

\* the dict v has no key but the canonical names of the table m
CanonicalNamed(v, m) == v.t = "dict" /\ DOMAIN v.d \subseteq DOMAIN m

\* the section sec of d is present and written in the canonical names
InCanonicalNames(d, sec) ==
    /\ d.t = "dict"
    /\ sec \in DOMAIN d.d
    /\ CASE sec = "FilingInformation" -> CanonicalNamed(d.d[sec], filing_info_mapping)
         [] sec = "IncomeStatement" -> CanonicalNamed(d.d[sec], income_statement_mapping)
         [] sec = "StatementOfFinancialPosition" ->
                /\ CanonicalNamed(d.d[sec], financial_position_mapping)
                /\ \A sub \in DOMAIN subsection_mapping \cap DOMAIN d.d[sec].d :
                        CanonicalNamed(d.d[sec].d[sub], subsection_mapping[sub])

\* C1: writing a section and its fields under the storage names instead of
\* the canonical names changes neither is_valid nor the set of rules that
\* report an error.
C1_NamingIndependent ==
    pc = "done" =>
        \A sec \in NamedSections :
            InCanonicalNames(data, sec) =>
                LET other == validate_xbrl_data(InStorageNames(data, sec))
                IN  /\ other.is_valid = result.is_valid
                    /\ Messages(other.errors) = Messages(result.errors)

\* C2: every check of validate runs on every call: whatever a check reports
\* when run on the document by itself is part of the returned errors, even
\* when an earlier check failed or raised.
C2_AllChecksRun ==
    Validated =>
        \A p \in Range(CheckOrder) :
            LET own == CheckAt(p, St(EmptyDict), data).errors
            IN  \A sec \in DOMAIN own :
                    /\ sec \in DOMAIN result.errors
                    /\ Range(own[sec]) \subseteq Range(result.errors[sec])

ExamplePosition(assets) ==
    { CanonicalFinancialPosition(5000, 5000, assets, 3000, 2000, 5000, 5000),
      SfpInStorageNames(CanonicalFinancialPosition(5000, 5000, assets, 3000, 2000, 5000, 5000)) }

OtherwiseValid == DOMAIN result.errors \subseteq {"StatementOfFinancialPosition"}

\* C3: an otherwise valid document with current assets 500, non-current
\* assets 500, Assets 1000, Liabilities 500 and equity 500 is valid; with
\* Assets 900 instead it is invalid with an error under
\* StatementOfFinancialPosition.
C3_BalanceExample ==
    (pc = "done" /\ OtherwiseValid) =>
        /\ PositionOf(data) \in ExamplePosition(10000) => result.is_valid
        /\ PositionOf(data) \in ExamplePosition(9000) =>
                /\ ~result.is_valid
                /\ "StatementOfFinancialPosition" \in DOMAIN result.errors

\* C4: an error is reported whenever total current liabilities plus total
\* non-current liabilities differs from Liabilities by more than the
\* rounding tolerance.
C4_LiabilitiesSum ==
    Validated =>
        LET cl == SubTotalOf(data, "CurrentLiabilities", "CurrentLiabilities")
            ncl == SubTotalOf(data, "NonCurrentLiabilities", "NoncurrentLiabilities")
            liabilities == PositionTotalOf(data, "Liabilities")
            level == DeclaredLevel(data)
            tolerance == IF level.t = "str" /\ level.c \in valid_rounding_levels
                         THEN LevelTolerance(level.c) ELSE LevelTolerance(sUnits)
        IN  (/\ IsAmount(cl) /\ IsAmount(ncl) /\ IsAmount(liabilities)
             /\ Abs(cl.n + ncl.n - liabilities.n) > tolerance)
                => ~result.is_valid

\* the dict v has no key but the storage names of the table m
StorageNamed(v, m) == v.t = "dict" /\ DOMAIN v.d \subseteq {m[k] : k \in DOMAIN m}

\* the financial position and its sub-sections are written in the storage
\* names
PositionInStorageNames(d) ==
    /\ StorageNamed(PositionOf(d), financial_position_mapping)
    /\ \A sub \in DOMAIN subsection_mapping :
            financial_position_mapping[sub] \in DOMAIN PositionOf(d).d =>
                StorageNamed(PositionOf(d).d[financial_position_mapping[sub]],
                             subsection_mapping[sub])

HoldsNull(d, section_keys, field) ==
    LET sfp_key == FirstKey(SfpKeys, d)
    IN  /\ sfp_key # NoKey
        /\ d.d[sfp_key].t = "dict"
        /\ LET section_key == FirstKey(section_keys, d.d[sfp_key])
           IN  /\ section_key # NoKey
               /\ d.d[sfp_key].d[section_key].t = "dict"
               /\ field \in DOMAIN d.d[sfp_key].d[section_key].d
               /\ d.d[sfp_key].d[section_key].d[field] = Null

\* C6: whenever the key TradeAndOtherPayablesCurrent or
\* TradeAndOtherPayablesNoncurrent exists in the financial position with a
\* null value, the result is invalid and has an error naming that field.
C6_PayablesNullGuard ==
    Validated =>
        \A guard \in { <<CurrentLiabilitiesKeys, PayablesCurrentKeys[1]>>,
                       <<NonCurrentLiabilitiesKeys, PayablesNoncurrentKeys[1]>> } :
            HoldsNull(data, guard[1], guard[2]) =>
                /\ ~result.is_valid
                /\ (guard[2] \o " should not be null") \in Messages(result.errors)

IncomeStatementKeys == <<"IncomeStatement", "income_statement">>

\* C7: a non-zero profit_loss with revenue absent or zero in the income
\* statement gives an error for the income statement.
C7_RevenueWithProfit ==
    Validated =>
        LET is_key == FirstKey(IncomeStatementKeys, data)
        IN  (/\ is_key # NoKey
             /\ data.d[is_key].t = "dict"
             /\ "profit_loss" \in DOMAIN data.d[is_key].d
             /\ IsAmount(data.d[is_key].d["profit_loss"])
             /\ data.d[is_key].d["profit_loss"].n # 0
             /\ \/ "revenue" \notin DOMAIN data.d[is_key].d
                \/ data.d[is_key].d["revenue"] = Num(0))
                => \E sec \in Range(IncomeStatementKeys) : sec \in DOMAIN result.errors

\* C8: the call never ends with an exception: every exception raised while
\* validating leaves an error under 'general' and is_valid false.
C8_NoExceptionPropagates ==
    pc = "done" =>
        /\ result.exception = ""
        /\ raised # <<>> =>
                /\ "general" \in DOMAIN result.errors
                /\ result.errors["general"] # <<>>
                /\ ~result.is_valid

\* a check of validate() raised and the call returned
C8_Witness ==
    /\ Validated
    /\ raised # <<>>
    /\ "general" \in DOMAIN result.errors
    /\ ~result.is_valid

\* C9: is_valid is true exactly when the returned error map has no entry,
\* and no entry of the map is an empty list.
C9_ValidIffNoErrors ==
    Validated =>
        /\ result.is_valid <=> DOMAIN result.errors = {}
        /\ \A sec \in DOMAIN result.errors : result.errors[sec] # <<>>

\* a call that returned errors for one section only
C9_Witness ==
    /\ Validated
    /\ Cardinality(DOMAIN result.errors) = 1
    /\ ~result.is_valid

AllIn(cs, from, to, chars) == \A i \in from..to : cs[i] \in chars

\* the three shapes of a unique entity number
HasUenShape(cs) ==
    \/ /\ Len(cs) = 9
       /\ AllIn(cs, 1, 8, DigitChars)
       /\ cs[9] \in UpperChars
    \/ /\ Len(cs) = 10
       /\ SubSeq(cs, 1, 2) \in {<<"1", "9">>, <<"2", "0">>}
       /\ AllIn(cs, 3, 9, DigitChars)
       /\ cs[10] \in UpperChars
    \/ /\ Len(cs) = 10
       /\ cs[1] \in {"T", "S", "R"}
       /\ AllIn(cs, 2, 3, DigitChars)
       /\ AllIn(cs, 4, 5, UpperChars)
       /\ AllIn(cs, 6, 9, DigitChars)
       /\ cs[10] \in UpperChars

UenMessages ==
    {"unique_entity_number: Invalid UEN format", "unique_entity_number: UEN is required"}

\* C10: a filing whose UniqueEntityNumber is a string gets a UEN message
\* under FilingInformation, and is invalid, exactly when the string has
\* none of the three shapes; so "201912345D" gets none and "INVALID_UEN"
\* gets one.
C10_UenShapes ==
    (/\ Validated
     /\ data.t = "dict"
     /\ "FilingInformation" \in DOMAIN data.d
     /\ data.d["FilingInformation"].t = "dict"
     /\ "UniqueEntityNumber" \in DOMAIN data.d["FilingInformation"].d
     /\ data.d["FilingInformation"].d["UniqueEntityNumber"].t = "str")
        =>
        LET uen == data.d["FilingInformation"].d["UniqueEntityNumber"].c
            reported == /\ "FilingInformation" \in DOMAIN result.errors
                        /\ Range(result.errors["FilingInformation"]) \cap UenMessages # {}
        IN  /\ reported <=> ~HasUenShape(uen)
            /\ reported => ~result.is_valid

----------------------------------------------------------------------------
(* Part II.  The term matcher, match_financial_term of                     *)
(* xbrl_mapping/services/ai/tools.py.  Terms, keywords and field names are *)
(* strings.                                                                *)

\* the characters of a string, and the string made of characters
Chars(t) == [i \in 1..Len(t) |-> SubSeq(t, i, i)]

RECURSIVE Text(_)
Text(cs) == IF Len(cs) = 0 THEN "" ELSE Head(cs) \o Text(Tail(cs))

\* str.lower()
Lower(t) == Text([i \in 1..Len(t) |-> ToLowerChar(SubSeq(t, i, i))])

\* k in t, for two strings
In(k, t) == \E i \in 1..(Len(t) - Len(k) + 1) : SubSeq(t, i, i + Len(k) - 1) = k

\* term.lower().strip()
Normalized(t) == Text(Strip(Chars(Lower(t))))

\* any(word in t for word in words)
AnyIn(words, t) == \E i \in 1..Len(words) : In(words[i], t)

income_terms ==
    <<
       [field |-> "Revenue",
        keywords |-> <<"revenue", "turnover", "sales", "contract", "income from operations">>],
       [field |-> "OtherIncome",
        keywords |-> <<"other income", "other operating income", "other revenue", "dividend income", "interest income", "rental income">>],
       [field |-> "EmployeeBenefitsExpense",
        keywords |-> <<"employee", "staff", "personnel", "salaries", "wages", "cpf", "compensation", "bonuses">>],
       [field |-> "DepreciationExpense",
        keywords |-> <<"depreciation", "property, plant and equipment", "ppe", "fixed assets", "depreciate">>],
       [field |-> "AmortisationExpense",
        keywords |-> <<"amortisation", "amortization", "intangible assets", "goodwill", "amortize">>],
       [field |-> "RepairsAndMaintenanceExpense",
        keywords |-> <<"repairs", "maintenance", "upkeep", "repair expenses", "maintenance costs">>],
       [field |-> "SalesAndMarketingExpense",
        keywords |-> <<"sales", "marketing", "advertising", "promotion", "selling expenses", "distribution costs">>],
       [field |-> "OtherExpensesByNature",
        keywords |-> <<"other expenses", "general expenses", "administrative", "utilities", "office expenses", "rental expenses">>],
       [field |-> "OtherGainsLosses",
        keywords |-> <<"other gains", "other losses", "foreign exchange", "forex", "fair value", "disposal gains", "disposal losses">>],
       [field |-> "FinanceCosts",
        keywords |-> <<"finance costs", "interest expense", "borrowing costs", "loan interest", "financing costs">>],
       [field |-> "ShareOfProfitLossOfAssociatesAndJointVenturesAccountedForUsingEquityMethod",
        keywords |-> <<"associates", "joint ventures", "equity method", "share of profit", "share of loss">>],
       [field |-> "ProfitLossBeforeTaxation",
        keywords |-> <<"profit before tax", "earnings before tax", "profit before income tax", "pbt", "ebt">>],
       [field |-> "TaxExpenseBenefitContinuingOperations",
        keywords |-> <<"income tax", "tax expense", "taxation", "tax charge", "income tax expense">>],
       [field |-> "ProfitLossFromDiscontinuedOperations",
        keywords |-> <<"discontinued operations", "disposal group", "discontinued business">>],
       [field |-> "ProfitLoss",
        keywords |-> <<"profit for the year", "net profit", "profit for the period", "net income", "total comprehensive income">>],
       [field |-> "ProfitLossAttributableToOwnersOfCompany",
        keywords |-> <<"attributable to owners", "attributable to shareholders", "equity holders", "owners of the company">>],
       [field |-> "ProfitLossAttributableToNoncontrollingInterests",
        keywords |-> <<"non-controlling interests", "minority interest", "minority shareholders", "nci">>]
    >>

position_terms ==
    <<
       [field |-> "currentAssets.CashAndBankBalances",
        keywords |-> <<"cash", "bank", "cash equivalents", "cash at bank", "cash on hand">>],
       [field |-> "currentAssets.TradeAndOtherReceivablesCurrent",
        keywords |-> <<"trade receivables", "accounts receivable", "trade debtors", "contract assets", "current receivables">>],
       [field |-> "currentAssets.CurrentFinanceLeaseReceivables",
        keywords |-> <<"lease receivables", "finance lease assets", "short-term lease receivables">>],
       [field |-> "currentAssets.CurrentDerivativeFinancialAssets",
        keywords |-> <<"derivatives", "forward contracts", "swap assets", "option assets", "current derivative assets">>],
       [field |-> "currentAssets.CurrentFinancialAssetsMeasuredAtFairValueThroughProfitOrLoss",
        keywords |-> <<"fvtpl", "fair value", "trading assets", "fair value instruments", "current financial assets at fair value">>],
       [field |-> "currentAssets.Inventories",
        keywords |-> <<"inventory", "stock", "goods for sale", "raw materials", "finished goods", "work in progress">>],
       [field |-> "currentAssets.OtherCurrentNonfinancialAssets",
        keywords |-> <<"prepayments", "advances", "deposits", "other current assets">>],
       [field |-> "currentAssets.CurrentAssets",
        keywords |-> <<"total current assets", "current assets", "short-term assets">>],
       [field |-> "nonCurrentAssets.PropertyPlantAndEquipment",
        keywords |-> <<"ppe", "fixed assets", "tangible assets", "property and equipment", "plant and equipment">>],
       [field |-> "nonCurrentAssets.InvestmentProperties",
        keywords |-> <<"investment property", "investment real estate", "rental properties", "property investments">>],
       [field |-> "nonCurrentAssets.Goodwill",
        keywords |-> <<"goodwill", "acquisition goodwill", "purchased goodwill">>],
       [field |-> "nonCurrentAssets.IntangibleAssetsOtherThanGoodwill",
        keywords |-> <<"intangible assets", "patents", "trademarks", "software", "licenses", "intellectual property">>],
       [field |-> "nonCurrentAssets.InvestmentsInSubsidiariesAssociatesOrJointVentures",
        keywords |-> <<"investments in subsidiaries", "investments in associates", "equity investments", "joint ventures">>],
       [field |-> "nonCurrentAssets.DeferredTaxAssets",
        keywords |-> <<"deferred tax assets", "future tax assets", "tax credits">>],
       [field |-> "nonCurrentAssets.NoncurrentAssets",
        keywords |-> <<"total non-current assets", "long-term assets", "fixed assets">>],
       [field |-> "currentLiabilities.TradeAndOtherPayablesCurrent",
        keywords |-> <<"trade payables", "accounts payable", "trade creditors", "accruals", "current payables">>],
       [field |-> "currentLiabilities.CurrentLoansAndBorrowings",
        keywords |-> <<"short-term borrowings", "bank overdrafts", "current portion of loans", "current loans">>],
       [field |-> "currentLiabilities.CurrentFinanceLeaseLiabilities",
        keywords |-> <<"current lease obligations", "short-term lease liabilities", "lease liabilities current">>],
       [field |-> "currentLiabilities.CurrentIncomeTaxLiabilities",
        keywords |-> <<"tax payable", "current tax", "income tax payable">>],
       [field |-> "currentLiabilities.CurrentProvisions",
        keywords |-> <<"short-term provisions", "current provisions", "warranty provisions">>],
       [field |-> "currentLiabilities.CurrentLiabilities",
        keywords |-> <<"total current liabilities", "short-term liabilities">>],
       [field |-> "nonCurrentLiabilities.NoncurrentLoansAndBorrowings",
        keywords |-> <<"long-term borrowings", "term loans", "bonds payable", "non-current loans">>],
       [field |-> "nonCurrentLiabilities.NoncurrentFinanceLeaseLiabilities",
        keywords |-> <<"long-term lease obligations", "long-term lease liabilities", "non-current lease liabilities">>],
       [field |-> "nonCurrentLiabilities.DeferredTaxLiabilities",
        keywords |-> <<"deferred tax liabilities", "future tax liabilities", "deferred taxation">>],
       [field |-> "nonCurrentLiabilities.NoncurrentProvisions",
        keywords |-> <<"long-term provisions", "decommissioning provisions", "restoration provisions">>],
       [field |-> "nonCurrentLiabilities.NoncurrentLiabilities",
        keywords |-> <<"total non-current liabilities", "long-term liabilities">>],
       [field |-> "equity.ShareCapital",
        keywords |-> <<"share capital", "issued capital", "paid-up capital", "ordinary shares", "common stock">>],
       [field |-> "equity.TreasuryShares",
        keywords |-> <<"treasury shares", "own shares", "repurchased shares", "treasury stock">>],
       [field |-> "equity.AccumulatedProfitsLosses",
        keywords |-> <<"retained earnings", "accumulated profits", "retained profits", "accumulated earnings">>],
       [field |-> "equity.ReservesOtherThanAccumulatedProfitsLosses",
        keywords |-> <<"reserves", "revaluation reserve", "translation reserve", "hedging reserve", "capital reserve">>],
       [field |-> "equity.NoncontrollingInterests",
        keywords |-> <<"minority interests", "nci", "minority shareholders' interest", "non-controlling interests">>],
       [field |-> "equity.Equity",
        keywords |-> <<"total equity", "shareholders' equity", "shareholders' funds", "net assets">>],
       [field |-> "Assets",
        keywords |-> <<"total assets", "assets">>],
       [field |-> "Liabilities",
        keywords |-> <<"total liabilities", "liabilities">>]
    >>

\* FinancialTermDeps.__post_init__ lower-cases every keyword
LowerTerms(terms) ==
    [i \in 1..Len(terms) |->
        [field |-> terms[i].field,
         keywords |-> [j \in 1..Len(terms[i].keywords) |-> Lower(terms[i].keywords[j])]]]

income_statement_terms == LowerTerms(income_terms)

financial_position_terms == LowerTerms(position_terms)

\* the candidates of one table, named "<prefix>.<field>"
Qualified(prefix, terms) ==
    [i \in 1..Len(terms) |->
        [full_field |-> prefix \o "." \o terms[i].field, keywords |-> terms[i].keywords]]

IncomeFilters == {"all", "income", "profit", "loss"}

PositionFilters == {"all", "position", "balance", "financial_position"}

\* the candidates the filter selects; a filter that selects nothing
\* selects everything
filtered_mappings(st) ==
    LET chosen == IF st = "" THEN "all" ELSE st
        income == IF Lower(chosen) \in IncomeFilters
                  THEN Qualified("income", income_statement_terms) ELSE <<>>
        position == IF Lower(chosen) \in PositionFilters
                    THEN Qualified("position", financial_position_terms) ELSE <<>>
    IN  IF income \o position = <<>>
        THEN Qualified("income", income_statement_terms)
                 \o Qualified("position", financial_position_terms)
        ELSE income \o position

ExactBonus == 5

CloseBonus == 2

CloseLength == 5

\* what one keyword adds to the score of its field: the close-match bonus
\* is given to every keyword found in the term
KeywordScoreBothBonuses(keyword, term_lower) ==
    (IF In(keyword, term_lower) THEN 1 ELSE 0)
        + (IF keyword = term_lower THEN ExactBonus ELSE 0)
        + (IF In(keyword, term_lower) /\ Len(keyword) > CloseLength THEN CloseBonus ELSE 0)

\* what one keyword adds to the score of its field
KeywordScore(keyword, term_lower) ==
    (IF In(keyword, term_lower) THEN 1 ELSE 0)
        + (IF keyword = term_lower THEN ExactBonus
           ELSE IF In(keyword, term_lower) /\ Len(keyword) > CloseLength THEN CloseBonus
           ELSE 0)

RECURSIVE Score(_, _)
Score(keywords, term_lower) ==
    IF Len(keywords) = 0 THEN 0
    ELSE KeywordScore(Head(keywords), term_lower) + Score(Tail(keywords), term_lower)

\* matches: the candidates that score above 0, in the order of the tables
RECURSIVE Matches(_, _)
Matches(mappings, term_lower) ==
    IF Len(mappings) = 0 THEN <<>>
    ELSE LET score == Score(Head(mappings).keywords, term_lower)
             rest == Matches(Tail(mappings), term_lower)
         IN  IF score > 0
             THEN <<[full_field |-> Head(mappings).full_field, score |-> score]>> \o rest
             ELSE rest

\* max(matches.items(), key=...): the first of the best candidates
BestMatch(matches) ==
    LET top == {i \in 1..Len(matches) : \A j \in 1..Len(matches) : matches[j].score <= matches[i].score}
    IN  matches[Min(top)]

\* s.split('.', 1), for an s that holds a dot
SplitOnce(s) ==
    LET dot == Min({i \in 1..Len(s) : SubSeq(s, i, i) = "."})
    IN  <<SubSeq(s, 1, dot - 1), SubSeq(s, dot + 1, Len(s))>>

IncomeWords == <<"revenue", "income", "sale", "expense", "cost", "profit", "loss", "tax">>

PositionWords ==
    <<"asset", "liability", "equity", "cash", "receivable", "payable", "property", "equipment">>

Matched(st, field, score, t) ==
    [statement_type |-> st, field |-> field, match_score |-> score, matched_term |-> t]

\* the value match_financial_term returns once the candidates are scored
Selected(matches, t) ==
    LET term_lower == Normalized(t)
    IN  IF matches # <<>>
        THEN LET best_match == BestMatch(matches)
                 parts == SplitOnce(best_match.full_field)
             IN  Matched(IF parts[1] = "income" THEN "income_statement"
                         ELSE "financial_position",
                         parts[2], best_match.score, t)
        ELSE IF AnyIn(IncomeWords, term_lower) THEN Matched("income_statement", t, 0, t)
        ELSE IF AnyIn(PositionWords, term_lower) THEN Matched("financial_position", t, 0, t)
        ELSE Matched("unknown", "unknown", 0, t)

\* match_financial_term(context, term, statement_type), as a function
match_financial_term(t, st) ==
    Selected(Matches(filtered_mappings(st), Normalized(t)), t)

\* the scoring loop of match_financial_term
ScoreCandidates ==
    /\ pc = "score"
    /\ match' = [matches |-> Matches(filtered_mappings(statement_type), Normalized(term)),
                 returned |-> Matched("", "", 0, "")]
    /\ pc' = "select"
    /\ UNCHANGED <<data, errors, taxonomy_version, result, raised, term, statement_type,
                   extractorVars, storageVars, taggerVars,
                   workflowVars, updateVars>>

\* the choice of the best candidate, or the guess when there is none
SelectBest ==
    /\ pc = "select"
    /\ match' = [match EXCEPT !.returned = Selected(match.matches, term)]
    /\ pc' = "matched"
    /\ UNCHANGED <<data, errors, taxonomy_version, result, raised, term, statement_type,
                   extractorVars, storageVars, taggerVars,
                   workflowVars, updateVars>>

\* the terms the matcher is asked about: every keyword of the tables as it
\* is written, keywords in other spellings, and terms of no table
Keywords(terms) == UNION {Range(terms[i].keywords) : i \in 1..Len(terms)}

OtherTerms ==
    {"Revenue", "  Total Assets ", "TURNOVER", "net revenue", "sales revenue growth",
     "cost of goods", "deferred tax", "loss", "other asset", "office equipment",
     "shareholder equity fund", "miscellaneous", "", " ", "x", "cash at bank and on hand"}

Terms == Keywords(income_terms) \cup Keywords(position_terms) \cup OtherTerms

Filters == {"all", "income", "position", "balance", "", "Income", "other"}

ValidatorIdle ==
    /\ data = Idle
    /\ errors = Idle
    /\ taxonomy_version = Idle
    /\ result = Idle
    /\ raised = Idle

MatcherIdle == term = Idle /\ statement_type = Idle /\ match = Idle

ExtractorIdle == extract_data = Idle /\ extract_results = Idle

StorageIdle == pydantic_data_dict = Idle /\ mapped_data = Idle

TaggerIdle ==
    /\ tags_cache = Idle /\ tagging_calls = Idle /\ tagged = Idle
    /\ tagging_threads = Idle

WorkflowIdle ==
    /\ workflow_call = Idle /\ task_status = Idle /\ request_thread = Idle
    /\ background_thread = Idle /\ workflow_log = Idle

UpdateIdle == update_call = Idle /\ stored_filing = Idle /\ update_thread = Idle

InitMatcher ==
    /\ term \in Terms
    /\ statement_type \in Filters
    /\ match = [matches |-> <<>>, returned |-> Matched("", "", 0, "")]
    /\ pc = "score"
    /\ ValidatorIdle /\ ExtractorIdle /\ StorageIdle /\ TaggerIdle /\ WorkflowIdle /\ UpdateIdle

NextMatcher ==
    \/ ScoreCandidates
    \/ SelectBest

SpecMatcher == InitMatcher /\ [][NextMatcher]_vars

----------------------------------------------------------------------------
(* Properties of the term matcher                                          *)

\* the score the matcher gave a candidate: a candidate left out of matches
\* scored 0
ScoreGiven(matches, full_field) ==
    LET idx == {i \in 1..Len(matches) : matches[i].full_field = full_field}
    IN  IF idx = {} THEN 0 ELSE matches[Min(idx)].score

\* the tables of both statements, each field with the statement it belongs to
AllTerms == income_statement_terms \o financial_position_terms

\* C11: a term that is written, as it stands, as a keyword of a field of the
\* term tables is matched to that field, with a match_score of at least 5
\* (asked with the filter "all", the default).
C11_KeywordReturnsItsField ==
    (pc = "matched" /\ statement_type = "all") =>
        \A i \in 1..Len(AllTerms) :
            term \in Range(AllTerms[i].keywords) =>
                /\ match.returned.field = AllTerms[i].field
                /\ match.returned.match_score >= 5

\* the number of keywords of a list that satisfy P, a keyword counted as
\* often as it is listed
HowMany(keywords, P(_)) == Cardinality({j \in 1..Len(keywords) : P(keywords[j])})

\* C12 as stated: the score of every candidate field is the sum over its
\* keywords of 1 for a keyword found in the normalized term, 5 for a keyword
\* equal to the term, and 2 for a keyword found in the term and longer than
\* 5 characters.
C12_ScoreIsSumOfBonuses ==
    pc \in {"select", "matched"} =>
        \A i \in 1..Len(filtered_mappings(statement_type)) :
            LET candidate == filtered_mappings(statement_type)[i]
                t == Normalized(term)
                Found(k) == In(k, t)
                Equal(k) == k = t
                Long(k) == In(k, t) /\ Len(k) > 5
            IN  ScoreGiven(match.matches, candidate.full_field)
                    = HowMany(candidate.keywords, Found)
                        + 5 * HowMany(candidate.keywords, Equal)
                        + 2 * HowMany(candidate.keywords, Long)

\* C12, amended: the score of every candidate field is the sum over its
\* keywords of 1 for a keyword found in the normalized term, 5 for a keyword
\* equal to the term, and 2 for a keyword found in the term, longer than 5
\* characters and not equal to the term.
C12_ScoreIsSumOfExclusiveBonuses ==
    pc \in {"select", "matched"} =>
        \A i \in 1..Len(filtered_mappings(statement_type)) :
            LET candidate == filtered_mappings(statement_type)[i]
                t == Normalized(term)
                Found(k) == In(k, t)
                Equal(k) == k = t
                Close(k) == In(k, t) /\ Len(k) > 5 /\ k # t
            IN  ScoreGiven(match.matches, candidate.full_field)
                    = HowMany(candidate.keywords, Found)
                        + 5 * HowMany(candidate.keywords, Equal)
                        + 2 * HowMany(candidate.keywords, Close)

\* the matcher has scored a term for which one candidate has a keyword
\* longer than 5 characters equal to the term and another has such a
\* keyword inside the term
C12_Witness ==
    /\ pc = "matched"
    /\ \E i \in 1..Len(filtered_mappings(statement_type)) :
           \E k \in Range(filtered_mappings(statement_type)[i].keywords) :
               k = Normalized(term) /\ Len(k) > 5
    /\ \E i \in 1..Len(filtered_mappings(statement_type)) :
           \E k \in Range(filtered_mappings(statement_type)[i].keywords) :
               In(k, Normalized(term)) /\ Len(k) > 5 /\ k # Normalized(term)

----------------------------------------------------------------------------
(* Part II, continued.  The structural extractor,                          *)
(* extract_and_categorize_financial_data of                                *)
(* xbrl_mapping/services/ai/tools.py.                                      *)
(*                                                                         *)
(* A decoded JSON value is a record [t, n, e, s, items]: t is the Python   *)
(* type ("null", "bool", "int", "float", "str", "dict", "list"); an int is *)
(* n * 10^e and a float is n tenths; s is the text of a string; items are  *)
(* the entries [k, v] of a dict in the order of the document, or the       *)
(* elements of a list (k is "" there).  A leaf of the input is named by    *)
(* its position, the indexes of the entries that lead to it.               *)

JNull == [t |-> "null", n |-> 0, e |-> 0, s |-> "", items |-> <<>>]

JBool(b) == [t |-> "bool", n |-> IF b THEN 1 ELSE 0, e |-> 0, s |-> "", items |-> <<>>]

JInt(m, e) == [t |-> "int", n |-> m, e |-> e, s |-> "", items |-> <<>>]

JFloat(tenths) == [t |-> "float", n |-> tenths, e |-> 0, s |-> "", items |-> <<>>]

JStr(s) == [t |-> "str", n |-> 0, e |-> 0, s |-> s, items |-> <<>>]

JDict(items) == [t |-> "dict", n |-> 0, e |-> 0, s |-> "", items |-> items]

JList(elems) ==
    [t |-> "list", n |-> 0, e |-> 0, s |-> "",
     items |-> [i \in 1..Len(elems) |-> [k |-> "", v |-> elems[i]]]]

Entry(k, v) == [k |-> k, v |-> v]

\* isinstance(v, (int, float)): a bool is an int
IsNumber(v) == v.t \in {"bool", "int", "float"}

\* the number of decimal digits of a positive integer
RECURSIVE Digits(_)
Digits(m) == IF m < 10 THEN 1 ELSE 1 + Digits(m \div 10)

RECURSIVE Pow10(_)
Pow10(e) == IF e = 0 THEN 1 ELSE 10 * Pow10(e - 1)

\* an int of more than MaxFloatDigits digits is beyond the largest float
MaxFloatDigits == 309

\* float(v) for a number v, in tenths: OverflowError for an int too large
\* (the ints of the model have either at most 9 digits or more than 309)
Float(v) ==
    IF v.t = "float" THEN Ok(v.n)
    ELSE IF v.t = "int" /\ v.n # 0 /\ Digits(Abs(v.n)) + v.e > MaxFloatDigits
    THEN Raise("OverflowError")
    ELSE Ok(10 * v.n * Pow10(v.e))

Buckets == <<"income_statement", "financial_position", "unknown">>

\* the state of one call: the exception raised ("" if none), the buckets,
\* and the leaves written so far, each with the bucket and field it went to
NewResults ==
    [x |-> "", results |-> [b \in Range(Buckets) |-> EmptyDict], writes |-> <<>>]

\* f[k] = v on a dict f
SetItem(f, k, v) == [j \in DOMAIN f \cup {k} |-> IF j = k THEN v ELSE f[j]]

\* results[bucket][field] = float(leaf), for the leaf at a position
Put(st, bucket, field, leaf, at) ==
    IF st.x # "" THEN st
    ELSE IF Float(leaf).x # "" THEN [st EXCEPT !.x = Float(leaf).x]
    ELSE [st EXCEPT !.results[bucket] = SetItem(@, field, Float(leaf).v),
                    !.writes = Append(@, [bucket |-> bucket, field |-> field, at |-> at])]

\* a numeric value under a key: matched by its path, then by its key alone
ClassifyWithKey(st, current_path, key, leaf, at) ==
    LET term_info == match_financial_term(current_path, "all")
        term_info_key_only == match_financial_term(key, "all")
    IN  IF st.x # "" THEN st
        ELSE IF Float(leaf).x # "" THEN [st EXCEPT !.x = Float(leaf).x]
        ELSE IF term_info.statement_type # "unknown"
        THEN Put(st, term_info.statement_type, term_info.field, leaf, at)
        ELSE IF term_info_key_only.statement_type # "unknown"
        THEN Put(st, term_info_key_only.statement_type, term_info_key_only.field, leaf, at)
        ELSE Put(st, "unknown", current_path, leaf, at)

\* the only value of a one-entry dict, or the first element of a list:
\* matched by its path
Classify(st, current_path, leaf, at) ==
    LET term_info == match_financial_term(current_path, "all")
    IN  IF st.x # "" THEN st
        ELSE IF term_info.statement_type # "unknown"
        THEN Put(st, term_info.statement_type, term_info.field, leaf, at)
        ELSE Put(st, "unknown", current_path, leaf, at)

\* key in d, and d[key], for a dict d
HasEntry(d, key) == \E i \in 1..Len(d.items) : d.items[i].k = key

EntryIndex(d, key) == CHOOSE i \in 1..Len(d.items) : d.items[i].k = key

\* the numeric entries of the dict at a position, each written to a bucket
\* under its key with a prefix
RECURSIVE CopyNumbers(_, _, _, _, _, _)
CopyNumbers(st, bucket, prefix, d, at, i) ==
    IF i > Len(d.items) THEN st
    ELSE CopyNumbers(IF IsNumber(d.items[i].v)
                     THEN Put(st, bucket, prefix \o d.items[i].k, d.items[i].v, Append(at, i))
                     ELSE st,
                     bucket, prefix, d, at, i + 1)

\* "incomeStatement" holding a dict: its numbers become the income bucket
IncomeStatementForm(st, d, at) ==
    IF HasEntry(d, "incomeStatement") /\ d.items[EntryIndex(d, "incomeStatement")].v.t = "dict"
    THEN LET i == EntryIndex(d, "incomeStatement")
         IN  CopyNumbers([st EXCEPT !.results["income_statement"] = EmptyDict],
                         "income_statement", "", d.items[i].v, Append(at, i), 1)
    ELSE st

Sections ==
    <<"currentAssets", "nonCurrentAssets", "currentLiabilities", "nonCurrentLiabilities",
      "equity">>

RECURSIVE CopySections(_, _, _, _)
CopySections(st, financial_position, at, n) ==
    IF n > Len(Sections) THEN st
    ELSE LET section == Sections[n]
             found == HasEntry(financial_position, section)
                          /\ financial_position.items[EntryIndex(financial_position, section)].v.t = "dict"
             i == EntryIndex(financial_position, section)
         IN  CopySections(IF found
                          THEN CopyNumbers(st, "financial_position", section \o ".",
                                           financial_position.items[i].v, Append(at, i), 1)
                          ELSE st,
                          financial_position, at, n + 1)

\* "statementOfFinancialPosition" holding a dict: its numbers, then the
\* numbers of its five sections
FinancialPositionForm(st, d, at) ==
    IF HasEntry(d, "statementOfFinancialPosition")
           /\ d.items[EntryIndex(d, "statementOfFinancialPosition")].v.t = "dict"
    THEN LET i == EntryIndex(d, "statementOfFinancialPosition")
             financial_position == d.items[i].v
         IN  CopySections(CopyNumbers(st, "financial_position", "", financial_position,
                                      Append(at, i), 1),
                          financial_position, Append(at, i), 1)
    ELSE st

\* the buckets of a nested call copied over the buckets of the caller
MergeBucket(mine, nested) ==
    [f \in DOMAIN mine \cup DOMAIN nested |-> IF f \in DOMAIN nested THEN nested[f] ELSE mine[f]]

Merge(st, nested_results) ==
    IF st.x # "" THEN st
    ELSE IF nested_results.x # "" THEN [st EXCEPT !.x = nested_results.x]
    ELSE [st EXCEPT !.results = [b \in Range(Buckets) |->
                                    MergeBucket(st.results[b], nested_results.results[b])],
                    !.writes = @ \o nested_results.writes]

RECURSIVE ExtractAt(_, _, _)
RECURSIVE ProcessItems(_, _, _, _, _)
RECURSIVE ProcessList(_, _, _, _, _)

\* the elements of a list from the j-th: a dict is extracted under
\* "<path>[<index>]", a number is classified when it is the first element
ProcessList(st, list, current_path, at, j) ==
    IF j > Len(list.items) \/ st.x # "" THEN st
    ELSE LET item == list.items[j].v
             list_path == current_path \o "[" \o ToString(j - 1) \o "]"
         IN  ProcessList(IF item.t = "dict"
                         THEN Merge(st, ExtractAt(item, list_path, Append(at, j)))
                         ELSE IF IsNumber(item) /\ j - 1 = 0
                         THEN Classify(st, current_path, item, Append(at, j))
                         ELSE st,
                         list, current_path, at, j + 1)

\* the entries of items_dict from the i-th
ProcessItems(st, d, field_path, at, i) ==
    IF i > Len(d.items) \/ st.x # "" THEN st
    ELSE LET key == d.items[i].k
             value == d.items[i].v
             current_path == IF field_path # "" THEN field_path \o "_" \o key ELSE key
             here == Append(at, i)
             done ==
                 IF key \in {"incomeStatement", "statementOfFinancialPosition"} THEN st
                 ELSE IF IsNumber(value) THEN ClassifyWithKey(st, current_path, key, value, here)
                 ELSE IF value.t = "dict"
                 THEN IF Len(value.items) = 1 /\ IsNumber(value.items[1].v)
                      THEN Classify(st, current_path, value.items[1].v, Append(here, 1))
                      ELSE Merge(st, ExtractAt(value, current_path, here))
                 ELSE IF value.t = "list" THEN ProcessList(st, value, current_path, here, 1)
                 ELSE st
         IN  ProcessItems(done, d, field_path, at, i + 1)

\* one call on the value at a position; what is not a dict has no items
ExtractAt(d, field_path, at) ==
    LET items_dict == IF d.t = "dict" THEN d ELSE JDict(<<>>)
    IN  ProcessItems(FinancialPositionForm(IncomeStatementForm(NewResults, items_dict, at),
                                           items_dict, at),
                     items_dict, field_path, at, 1)

\* the buckets that are not empty
NonEmpty(results) ==
    [b \in {c \in DOMAIN results : DOMAIN results[c] # {}} |-> results[b]]

\* extract_and_categorize_financial_data(context, data, field_path)
extract_and_categorize_financial_data(d, field_path) ==
    LET st == ExtractAt(d, field_path, <<>>)
    IN  [x |-> st.x,
         results |-> IF st.x # "" THEN EmptyDict ELSE NonEmpty(st.results),
         writes |-> IF st.x # "" THEN <<>> ELSE st.writes]

\* one call of the extractor on a document
Extract ==
    /\ pc = "extract"
    /\ extract_results' = extract_and_categorize_financial_data(extract_data, "")
    /\ pc' = "extracted"
    /\ UNCHANGED <<data, errors, taxonomy_version, result, raised, extract_data,
                   matcherVars, storageVars, taggerVars,
                   workflowVars, updateVars>>

\* the documents given to the extractor
MaxAmount == 2

HugeExponent == 400

Amounts == {JInt(m, 0) : m \in 1..MaxAmount}

NumberLeaves == Amounts \cup {JInt(0, 0), JBool(TRUE), JFloat(15), JInt(1, HugeExponent)}

OtherLeaves == {JNull, JStr("n/a")}

TermKeys == {"revenue", "Revenue", "sales", "total assets", "note"}

ContainerKeys == {"incomeStatement", "statementOfFinancialPosition"}

\* the shapes a value takes around one or two leaves
Shapes(a, b) ==
    {a,
     JDict(<<Entry("amount", a)>>),
     JDict(<<Entry("revenue", a), Entry("note", b)>>),
     JDict(<<Entry("Revenue", a), Entry("currentAssets", JDict(<<Entry("Cash", b)>>))>>),
     JDict(<<Entry("detail", JDict(<<Entry("sales", a), Entry("turnover", b)>>))>>),
     JList(<<a, b>>),
     JList(<<JStr("n/a"), a>>),
     JList(<<JList(<<a>>)>>),
     JList(<<JDict(<<Entry("revenue", a), Entry("note", b)>>), b>>),
     JList(<<>>),
     JDict(<<>>)}

DocsOneKey ==
    {JDict(<<Entry(k, v)>>) :
        k \in TermKeys \cup ContainerKeys,
        v \in UNION {Shapes(a, JInt(1, 0)) : a \in NumberLeaves \cup OtherLeaves}}

DocsTwoKeys ==
    {JDict(<<Entry(ks[1], v1), Entry(ks[2], v2)>>) :
        ks \in {p \in TermKeys \X TermKeys : p[1] # p[2]}, v1 \in Amounts, v2 \in Amounts}

\* a statement in statement form next to a key of the same field, in both
\* orders
DocsStatementForm ==
    UNION {{JDict(<<Entry(k, a), Entry(c, JDict(<<Entry(f, b)>>))>>),
            JDict(<<Entry(c, JDict(<<Entry(f, b)>>)), Entry(k, a)>>)} :
        a \in Amounts, b \in Amounts,
        k \in {"Revenue", "total assets"}, c \in ContainerKeys, f \in {"Revenue", "Assets"}}

\* the example of the specification, and a section next to a flattened key
DocsFinancialPosition ==
    {JDict(<<Entry("statementOfFinancialPosition",
                   JDict(<<Entry("Assets", JInt(1000, 0)), Entry("Liabilities", JInt(600, 0)),
                           Entry("currentAssets",
                                 JDict(<<Entry("CashAndBankBalances", JInt(1000, 0))>>))>>))>>)}
    \cup
    UNION {{JDict(<<Entry("statementOfFinancialPosition",
                          JDict(<<Entry("currentAssets.Cash", a),
                                  Entry("currentAssets", JDict(<<Entry("Cash", b)>>))>>))>>),
            JDict(<<Entry("statementOfFinancialPosition",
                          JDict(<<Entry("equity", JDict(<<Entry("ShareCapital", a)>>)),
                                  Entry("other", JDict(<<Entry("Cash", b)>>)),
                                  Entry("Assets", b)>>))>>)} :
        a \in Amounts, b \in Amounts}

DocsNotMappings ==
    {JNull, JInt(1, 0), JStr("n/a"), JBool(FALSE), JList(<<>>), JList(<<JInt(1, 0), JInt(2, 0)>>),
     JList(<<JList(<<JStr("a"), JNull>>), JList(<<JStr("b")>>)>>),
     JList(<<JDict(<<Entry("revenue", JInt(1, 0))>>)>>)}

ExtractInputs ==
    DocsOneKey \cup DocsTwoKeys \cup DocsStatementForm \cup DocsFinancialPosition
        \cup DocsNotMappings

NoExtract == [x |-> "", results |-> EmptyDict, writes |-> <<>>]

InitExtractor ==
    /\ extract_data \in ExtractInputs
    /\ extract_results = NoExtract
    /\ pc = "extract"
    /\ ValidatorIdle /\ MatcherIdle /\ StorageIdle /\ TaggerIdle /\ WorkflowIdle /\ UpdateIdle

NextExtractor == Extract

SpecExtractor == InitExtractor /\ [][NextExtractor]_vars

----------------------------------------------------------------------------
(* Properties of the extractor                                             *)

\* the positions of the numeric leaves of a value
RECURSIVE NumericLeaves(_, _)
NumericLeaves(v, at) ==
    IF IsNumber(v) THEN {at}
    ELSE UNION {NumericLeaves(v.items[i].v, Append(at, i)) : i \in 1..Len(v.items)}

\* the value at a position
RECURSIVE ValueAt(_, _)
ValueAt(v, at) == IF at = <<>> THEN v ELSE ValueAt(v.items[Head(at)].v, Tail(at))

\* the leaf is an element of a list, after the first
AfterFirstOfList(v, at) ==
    /\ at # <<>>
    /\ ValueAt(v, SubSeq(at, 1, Len(at) - 1)).t = "list"
    /\ at[Len(at)] > 1

\* p comes before q in the document
RECURSIVE Before(_, _)
Before(p, q) ==
    /\ p # <<>> /\ q # <<>>
    /\ \/ Head(p) < Head(q)
       \/ Head(p) = Head(q) /\ Before(Tail(p), Tail(q))

WrittenLeaves == {extract_results.writes[i].at : i \in 1..Len(extract_results.writes)}

\* C13: the extractor raises nothing, whatever decoded JSON value it is
\* given.
C13_ExtractNeverRaises == pc = "extracted" => extract_results.x = ""

\* C14: every numeric leaf of the input is written to a bucket, except the
\* elements of a list after its first.
C14_EveryNumericLeafPlaced ==
    (pc = "extracted" /\ extract_results.x = "") =>
        \A at \in NumericLeaves(extract_data, <<>>) :
            ~AfterFirstOfList(extract_data, at) => at \in WrittenLeaves

\* C15: of the leaves written to one field of one bucket, the result keeps
\* the value of the one that comes last in the document.
C15_LaterLeafKept ==
    (pc = "extracted" /\ extract_results.x = "") =>
        \A i \in 1..Len(extract_results.writes) :
            LET w == extract_results.writes[i]
                same == {j \in 1..Len(extract_results.writes) :
                            /\ extract_results.writes[j].bucket = w.bucket
                            /\ extract_results.writes[j].field = w.field}
            IN  (\A j \in same : j = i \/ Before(extract_results.writes[j].at, w.at))
                    => extract_results.results[w.bucket][w.field]
                           = Float(ValueAt(extract_data, w.at)).v

----------------------------------------------------------------------------
(* Part III.  The translation to storage names,                            *)
(* map_pydantic_to_django_fields of                                        *)
(* xbrl_mapping/services/processors/storage.py.  Values are the records    *)
(* [t, n, c, d] of Part I; the tables are those of Part I, with the tables *)
(* of the sections Part I does not rename.                                 *)

directors_statement_mapping ==
    [WhetherInDirectorsOpinionFinancialStatementsAreDrawnUpSoAsToExhibitATrueAndFairView |->
         "directors_opinion_true_fair_view",
     WhetherThereAreReasonableGroundsToBelieveThatCompanyWillBeAbleToPayItsDebtsAsAndWhenTheyFallDueAtDateOfStatement |->
         "reasonable_grounds_company_debts"]

audit_report_mapping ==
    [TypeOfAuditOpinionInIndependentAuditorsReport |-> "audit_opinion",
     AuditingStandardsUsedToConductTheAudit |-> "auditing_standards",
     WhetherThereIsAnyMaterialUncertaintyRelatingToGoingConcern |->
         "material_uncertainty_going_concern",
     WhetherInAuditorsOpinionAccountingAndOtherRecordsRequiredAreProperlyKept |->
         "proper_accounting_records"]

trade_receivables_mapping ==
    [TradeAndOtherReceivablesDueFromThirdParties |-> "receivables_from_third_parties",
     TradeAndOtherReceivablesDueFromRelatedParties |-> "receivables_from_related_parties",
     UnbilledReceivables |-> "unbilled_receivables",
     OtherReceivables |-> "other_receivables",
     TradeAndOtherReceivables |-> "total_trade_and_other_receivables"]

trade_payables_mapping ==
    [TradeAndOtherPayablesDueToThirdParties |-> "payables_to_third_parties",
     TradeAndOtherPayablesDueToRelatedParties |-> "payables_to_related_parties",
     DeferredIncome |-> "deferred_income",
     OtherPayables |-> "other_payables",
     TradeAndOtherPayables |-> "total_trade_and_other_payables"]

revenue_mapping ==
    [RevenueFromPropertyTransferredAtPointInTime |-> "revenue_from_property_point_in_time",
     RevenueFromGoodsTransferredAtPointInTime |-> "revenue_from_goods_point_in_time",
     RevenueFromServicesTransferredAtPointInTime |-> "revenue_from_services_point_in_time",
     RevenueFromPropertyTransferredOverTime |-> "revenue_from_property_over_time",
     RevenueFromConstructionContractsOverTime |-> "revenue_from_construction_over_time",
     RevenueFromServicesTransferredOverTime |-> "revenue_from_services_over_time",
     OtherRevenue |-> "other_revenue",
     Revenue |-> "total_revenue"]

\* the keys of the notes: their three sub-sections
notes_mapping ==
    [TradeAndOtherReceivables |-> "trade_and_other_receivables",
     TradeAndOtherPayables |-> "trade_and_other_payables",
     Revenue |-> "revenue"]

notes_subsection_mapping ==
    [TradeAndOtherReceivables |-> trade_receivables_mapping,
     TradeAndOtherPayables |-> trade_payables_mapping,
     Revenue |-> revenue_mapping]

\* the values of a table
Range2(m) == {m[k] : k \in DOMAIN m}

\* the sections with one table, and the storage name of every section
section_tables ==
    [FilingInformation |-> filing_info_mapping,
     DirectorsStatement |-> directors_statement_mapping,
     AuditReport |-> audit_report_mapping,
     IncomeStatement |-> income_statement_mapping]

section_names ==
    [FilingInformation |-> "filing_information",
     DirectorsStatement |-> "directors_statement",
     AuditReport |-> "audit_report",
     StatementOfFinancialPosition |-> "statement_of_financial_position",
     IncomeStatement |-> "income_statement",
     Notes |-> "notes"]

\* `name in v` followed by v[name], for the names of a set: a TypeError on
\* None and on a number, and on a string that holds one of the names
LookupRaises(v, names) ==
    \/ InRaises(v)
    \/ v.t = "str" /\ \E k \in names : In(k, Text(v.c))

\* the loop over one table: the section copied under the storage names
MapSection(v, m) ==
    IF LookupRaises(v, DOMAIN m) THEN Raise("TypeError")
    ELSE IF v.t = "str" THEN Ok(Dict(EmptyDict))
    ELSE Ok(RenameKeys(v, m))

\* a section with sub-sections: its own keys are renamed by names, and the
\* sub-sections of tables are copied each under the names of its table
MapNested(v, names, tables) ==
    IF LookupRaises(v, DOMAIN names) THEN Raise("TypeError")
    ELSE IF v.t = "str" THEN Ok(Dict(EmptyDict))
    ELSE LET present == DOMAIN v.d \cap DOMAIN names
             sub == [k \in present \cap DOMAIN tables |-> MapSection(v.d[k], tables[k])]
         IN  IF \E k \in DOMAIN sub : sub[k].x # "" THEN Raise("TypeError")
             ELSE Ok(Dict([nk \in {names[k] : k \in present} |->
                     LET k == CHOOSE j \in present : names[j] = nk
                     IN  IF k \in DOMAIN tables THEN sub[k].v ELSE v.d[k]]))

\* the storage form of the section sec of the dict d
MappedSection(d, sec) ==
    IF sec \in DOMAIN section_tables THEN MapSection(d.d[sec], section_tables[sec])
    ELSE IF sec = "StatementOfFinancialPosition"
    THEN MapNested(d.d[sec], financial_position_mapping, subsection_mapping)
    ELSE MapNested(d.d[sec], notes_mapping, notes_subsection_mapping)

\* a top-level field copied into filing_information when it has none
Backfill(mapped, d, pascal_name, snake_name) ==
    LET filing == IF "filing_information" \in DOMAIN mapped
                  THEN mapped["filing_information"] ELSE Dict(EmptyDict)
    IN  IF snake_name \notin DOMAIN filing.d /\ pascal_name \in DOMAIN d.d
        THEN SetItem(mapped, "filing_information",
                     Dict(SetItem(filing.d, snake_name, d.d[pascal_name])))
        ELSE mapped

\* the translation, with the keys that have no mapping copied as they are
MapKeepingUnmapped(d) ==
    LET present == DOMAIN d.d \cap DOMAIN section_names
        sections == [sec \in present |-> MappedSection(d, sec)]
        kept == DOMAIN d.d \ (DOMAIN section_names \cup {"NameOfCompany", "UniqueEntityNumber"})
        mapped == [nk \in {section_names[sec] : sec \in present} \cup kept |->
                      IF nk \in kept THEN d.d[nk]
                      ELSE sections[CHOOSE sec \in present : section_names[sec] = nk].v]
    IN  IF \E sec \in present : sections[sec].x # "" THEN Raise("TypeError")
        ELSE Ok(Dict(Backfill(Backfill(mapped, d, "NameOfCompany", "company_name"),
                              d, "UniqueEntityNumber", "unique_entity_number")))

\* map_pydantic_to_django_fields(pydantic_data_dict), for a dict
map_pydantic_to_django_fields(d) ==
    LET present == DOMAIN d.d \cap DOMAIN section_names
        sections == [sec \in present |-> MappedSection(d, sec)]
        mapped == [nk \in {section_names[sec] : sec \in present} |->
                      sections[CHOOSE sec \in present : section_names[sec] = nk].v]
    IN  IF \E sec \in present : sections[sec].x # "" THEN Raise("TypeError")
        ELSE Ok(Dict(Backfill(Backfill(mapped, d, "NameOfCompany", "company_name"),
                              d, "UniqueEntityNumber", "unique_entity_number")))

\* a call on a document
Translate ==
    /\ pc = "translate"
    /\ mapped_data' = <<map_pydantic_to_django_fields(pydantic_data_dict)>>
    /\ pc' = "translated"
    /\ UNCHANGED <<data, errors, taxonomy_version, result, raised, pydantic_data_dict,
                   matcherVars, extractorVars, taggerVars,
                   workflowVars, updateVars>>

\* a second call, on what the first returned
TranslateOutput ==
    /\ pc = "translated"
    /\ mapped_data[1].x = ""
    /\ mapped_data' = Append(mapped_data, map_pydantic_to_django_fields(mapped_data[1].v))
    /\ pc' = "retranslated"
    /\ UNCHANGED <<data, errors, taxonomy_version, result, raised, pydantic_data_dict,
                   matcherVars, extractorVars, taggerVars,
                   workflowVars, updateVars>>

\* the documents translated: up to MaxSections sections, each of a right or
\* a wrong type; top-level fields to backfill; documents in storage names
MaxSections == 2

sAcme == Chars("Acme")

SectionValues(sec) ==
    {Null, Num(5), Str(Chars("n/a")), Str(Chars("see Revenue and Assets")), Dict(EmptyDict),
     Dict([ZeroCoupon |-> Num(7)])}
    \cup
    (CASE sec = "FilingInformation" ->
             {Dict([NameOfCompany |-> Str(sAcme), Website |-> Str(sAcme)]),
              Dict([UniqueEntityNumber |-> Str(Chars("201912345D"))]),
              Str(Chars("NameOfCompany"))}
       [] sec = "DirectorsStatement" ->
             {Dict([WhetherInDirectorsOpinionFinancialStatementsAreDrawnUpSoAsToExhibitATrueAndFairView |->
                        Str(Chars("Yes"))])}
       [] sec = "AuditReport" ->
             {Dict([TypeOfAuditOpinionInIndependentAuditorsReport |-> Str(Chars("Unqualified")),
                    audit_opinion |-> Str(Chars("Adverse"))])}
       [] sec = "StatementOfFinancialPosition" ->
             {Dict([Assets |-> Num(1000), Liabilities |-> Num(600), Goodwill |-> Num(1),
                    CurrentAssets |-> Dict([CurrentAssets |-> Num(1000), Cash |-> Num(1)])]),
              Dict([Assets |-> Null, Equity |-> Null]),
              Dict([NonCurrentAssets |-> Str(Chars("n/a")),
                    CurrentLiabilities |-> Dict(EmptyDict),
                    NonCurrentLiabilities |-> Dict([NoncurrentLiabilities |-> Num(200)])]),
              Dict([Equity |-> Num(500)]),
              Dict([total_assets |-> Num(1000)])}
       [] sec = "IncomeStatement" ->
             {Dict([Revenue |-> Num(1000), ProfitLoss |-> Num(100), revenue |-> Num(2)]),
              Str(Chars("Revenue"))}
       [] sec = "Notes" ->
             {Dict([Revenue |-> Dict([Revenue |-> Num(1000), Other |-> Num(1)]),
                    TradeAndOtherPayables |-> Dict([OtherPayables |-> Num(5)])]),
              Dict([TradeAndOtherReceivables |-> Null]),
              Dict([Revenue |-> Num(1000)]),
              Dict([Revenue |-> Str(Chars("OtherRevenue"))])})

TopLevelFields ==
    {EmptyDict,
     [NameOfCompany |-> Str(sAcme)],
     [UniqueEntityNumber |-> Str(Chars("201912345D")), Remarks |-> Str(sAcme)],
     [NameOfCompany |-> Null, UniqueEntityNumber |-> Num(5)]}

SectionSets == {s \in SUBSET DOMAIN section_names : Cardinality(s) <= MaxSections}

ChoicesFor(secs) ==
    {f \in [secs -> UNION {SectionValues(sec) : sec \in secs}] :
        \A sec \in secs : f[sec] \in SectionValues(sec)}

DocsCanonical ==
    UNION {{Dict(choice @@ top) : top \in TopLevelFields, choice \in ChoicesFor(secs)} :
              secs \in SectionSets}

DocsStorageNamed ==
    {Dict([filing_information |-> Dict([company_name |-> Str(sAcme)]),
           income_statement |-> Dict([revenue |-> Num(1000)])]),
     Dict([filing_information |-> Null, notes |-> Num(5)]),
     Dict([statement_of_financial_position |->
               Dict([total_assets |-> Num(1000),
                     current_assets |-> Dict([total_current_assets |-> Num(1000)])]),
           company_name |-> Str(sAcme)])}

InitStorage ==
    /\ pydantic_data_dict \in DocsCanonical \cup DocsStorageNamed
    /\ mapped_data = <<>>
    /\ pc = "translate"
    /\ ValidatorIdle /\ MatcherIdle /\ ExtractorIdle /\ TaggerIdle /\ WorkflowIdle /\ UpdateIdle

NextStorage ==
    \/ Translate
    \/ TranslateOutput

SpecStorage == InitStorage /\ [][NextStorage]_vars

----------------------------------------------------------------------------
(* Properties of the translation                                           *)

\* C16: the translation returns for every dictionary, whatever the types of
\* its sections: it raises nothing, and the keys it returns are storage
\* names.
C16_TotalOnAnyDictionary ==
    \A i \in 1..Len(mapped_data) :
        /\ mapped_data[i].x = ""
        /\ DOMAIN mapped_data[i].v.d \subseteq Range2(section_names)

\* the storage names: those of the sections and those of every table
StorageNames ==
    Range2(section_names) \cup Range2(financial_position_mapping) \cup Range2(notes_mapping)
        \cup UNION {Range2(section_tables[sec]) : sec \in DOMAIN section_tables}
        \cup UNION {Range2(subsection_mapping[sec]) : sec \in DOMAIN subsection_mapping}
        \cup UNION {Range2(notes_subsection_mapping[sec]) : sec \in DOMAIN notes_subsection_mapping}

\* every key of the dictionary, at its top level, is a storage name
AlreadyStorageNamed(d) == DOMAIN d.d \subseteq StorageNames

\* C17: translated again, the output of the translation gives the empty
\* dict, and so does every dictionary whose keys are storage names.
C17_StorageNamedGivesEmpty ==
    /\ pc = "retranslated" => mapped_data[2] = Ok(Dict(EmptyDict))
    /\ (pc # "translate" /\ AlreadyStorageNamed(pydantic_data_dict))
           => mapped_data[1] = Ok(Dict(EmptyDict))

\* an output with a financial position that has a sub-section with a field
\* has been translated again
C17_Witness ==
    /\ pc = "retranslated"
    /\ "statement_of_financial_position" \in DOMAIN mapped_data[1].v.d
    /\ LET position == mapped_data[1].v.d["statement_of_financial_position"]
       IN  /\ "current_assets" \in DOMAIN position.d
           /\ "total_current_assets" \in DOMAIN position.d["current_assets"].d

\* ---------------------------------------------------------------------------
\* Part IV: the tagger (src/xbrl_tagging/services/tools.py).  A tag is written
\* as its element_id; durations are not measured, processing_time_ms is 0.
\* ---------------------------------------------------------------------------

\* SG_XBRL_TAXONOMY, in the order of its keys: the fields the element names of
\* ElementNames reach, each with the element_ids of its tags
field_tags ==
    << [field |-> "DisclosureOfFilingInformationAbstract",
        tags  |-> <<"sg-dei_DisclosureOfFilingInformationAbstract">>],
       [field |-> "NameOfCompany", tags |-> <<"sg-dei_NameOfCompany">>],
       [field |-> "AssetsAbstract", tags |-> <<"sg-as_AssetsAbstract">>],
       [field |-> "CashAndBankBalances", tags |-> <<"sg-as_CashAndBankBalances">>],
       [field |-> "Assets", tags |-> <<"sg-as_Assets">>],
       [field |-> "Revenue", tags |-> <<"sg-as_Revenue">> ] >>

\* MANDATORY_TAGS restricted to the fields of field_tags (all of them True)
mandatory_fields == {"NameOfCompany", "Assets", "Revenue"}

\* SG_XBRL_STATEMENT_TAGS: element_name is the element_id after the prefix
statement_tags ==
    << [prefix |-> "sg-dei", element_name |-> "DisclosureOfFilingInformationAbstract"],
       [prefix |-> "sg-dei", element_name |-> "DetailsOfInstanceDocumentAbstract"],
       [prefix |-> "sg-dei", element_name |-> "DisclosureInStatementByDirectorsAbstract"],
       [prefix |-> "sg-ssa", element_name |-> "DisclosuresInIndependentAuditorsReportAbstract"],
       [prefix |-> "sg-as", element_name |-> "StatementOfFinancialPositionLineItems"],
       [prefix |-> "sg-as", element_name |-> "AssetsAbstract"],
       [prefix |-> "sg-as", element_name |-> "LiabilitiesAbstract"],
       [prefix |-> "sg-as", element_name |-> "EquityAbstract"],
       [prefix |-> "sg-as", element_name |-> "StatementOfProfitOrLossLineItems"],
       [prefix |-> "sg-as", element_name |-> "ProfitLossAbstract"],
       [prefix |-> "sg-as", element_name |-> "ProfitLossAttributableToAbstract"],
       [prefix |-> "sg-as", element_name |-> "TradeAndOtherReceivablesAbstract"],
       [prefix |-> "sg-as",
        element_name |-> "DisclosureOfDetailedInformationAboutTradeAndOtherReceivablesLineItems"],
       [prefix |-> "sg-as", element_name |-> "TradeAndOtherPayablesAbstract"],
       [prefix |-> "sg-as",
        element_name |-> "DisclosureOfDetailedInformationAboutTradeAndOtherPayablesLineItems"],
       [prefix |-> "sg-as", element_name |-> "DisclosureOfRevenueAbstract"],
       [prefix |-> "sg-as", element_name |-> "RevenueAbstract"] >>

\* tag.element_name.lower(), for each statement tag
statement_tags_lower ==
    [i \in 1..Len(statement_tags) |-> Lower(statement_tags[i].element_name)]

\* field_name.lower(), for each field of field_tags
field_lower == [i \in 1..Len(field_tags) |-> Lower(field_tags[i].field)]

\* tag.dict(), kept as the tag's element_id
TagDict(tag) == tag.prefix \o "_" \o tag.element_name

\* f"{element_name}:{statement_type}"
CacheKey(element_name, section_type) == element_name \o ":" \o section_type

\* the index in field_tags of the field named element_name, 0 if there is none
ExactField(element_name) ==
    LET hits == {i \in 1..Len(field_tags) : field_tags[i].field = element_name}
    IN  IF hits = {} THEN 0 ELSE CHOOSE i \in hits : TRUE

\* element_lower in field_lower or field_lower in element_lower
Similar(element_lower, i) ==
    \/ In(element_lower, field_lower[i])
    \/ In(field_lower[i], element_lower)

\* the first field of field_tags similar to element_name, 0 if there is none
SimilarField(element_name) ==
    LET element_lower == Lower(element_name)
        hits == {i \in 1..Len(field_tags) : Similar(element_lower, i)}
    IN  IF hits = {} THEN 0 ELSE CHOOSE i \in hits : \A j \in hits : i <= j

\* the tags of an element: those of the field with its name, else of the first
\* similar field, else none
FindTags(element_name) ==
    IF ExactField(element_name) # 0 THEN field_tags[ExactField(element_name)].tags
    ELSE IF SimilarField(element_name) # 0
         THEN field_tags[SimilarField(element_name)].tags
         ELSE <<>>

\* the tags of an element on the path without batch processing: exact only
FindExactTags(element_name) ==
    IF ExactField(element_name) # 0 THEN field_tags[ExactField(element_name)].tags
    ELSE <<>>

\* the messages of apply_tags_to_element
TagMessages(element_name) ==
    (IF ExactField(element_name) # 0
     THEN << "Found exact tag match for " \o element_name >>
     ELSE << "No exact tag match found for " \o element_name >>
          \o (IF SimilarField(element_name) # 0
              THEN << "Using similar tag: "
                      \o field_tags[SimilarField(element_name)].field >>
              ELSE <<>>))
    \o (IF element_name \in mandatory_fields
        THEN << "Note: " \o element_name \o " is a mandatory field" >>
        ELSE <<>>)

\* dict.pop(key, None) on a copy
Popped(f, key) == [k \in DOMAIN f \ {key} |-> f[k]]

\* a cached result, returned without the value of this call
CachedWithoutValue(cached, value) == cached

\* cached_result = _tags_cache[cache_key].copy(); cached_result["value"] = value
CachedResult(cached, value) == SetItem(cached, "value", value)

\* apply_tags_to_element: the cache after the call and the dictionary returned
apply_tags_to_element(cache, element_name, value, section_type) ==
    LET cache_key == CacheKey(element_name, section_type)
        fresh == [element_name       |-> element_name,
                  value              |-> value,
                  tags               |-> FindTags(element_name),
                  is_mandatory       |-> element_name \in mandatory_fields,
                  messages           |-> TagMessages(element_name),
                  processing_time_ms |-> 0]
    IN  IF cache_key \in DOMAIN cache
        THEN [cache |-> cache, returned |-> CachedResult(cache[cache_key], value)]
        ELSE [cache    |-> SetItem(cache, cache_key, Popped(fresh, "value")),
              returned |-> fresh]

\* the statement tags, from the i-th on, whose name contains the section name
RECURSIVE MetaTagsFrom(_, _)
MetaTagsFrom(name, i) ==
    IF i > Len(statement_tags) THEN <<>>
    ELSE (IF In(name, statement_tags_lower[i])
          THEN << TagDict(statement_tags[i]) >> ELSE <<>>)
         \o MetaTagsFrom(name, i + 1)

\* the meta tags of a section; a section name that is not a string makes
\* every comparison raise, and each tag is skipped
MetaTags(section_name) ==
    IF section_name.t # "str" THEN <<>>
    ELSE MetaTagsFrom(Lower(Text(section_name.c)), 1)

\* section_name.lower() if section_name else "": a truthy section name that
\* is not a string has no lower()
SectionLowerRaises(section_name) == Truthy(section_name) /\ section_name.t # "str"

SectionLower(section_name) ==
    IF Truthy(section_name) THEN Lower(Text(section_name.c)) ELSE ""

\* the statement type read from the section name
StatementType(section_lower) ==
    CASE In("financial", section_lower) \/ In("position", section_lower)
            \/ In("balance", section_lower) -> "balance_sheet"
      [] In("income", section_lower) \/ In("profit", section_lower)
            \/ In("loss", section_lower)    -> "income_statement"
      [] In("cash", section_lower)          -> "cash_flow"
      [] In("equity", section_lower) \/ In("changes", section_lower) -> "equity"
      [] In("director", section_lower)      -> "directors"
      [] In("audit", section_lower)         -> "audit"
      [] OTHER                              -> "filing"

\* not section_data or not isinstance(section_data, dict)
InvalidSectionData(section_data) == ~Truthy(section_data) \/ section_data.t # "dict"

\* isinstance(element_value, (list, dict))
IsComplex(element_value) == element_value.t = "dict"

\* the elements the batch path tags: simple ones with a value
BatchElements(section_data) ==
    {k \in DOMAIN section_data.d :
        ~IsComplex(section_data.d[k]) /\ section_data.d[k].t # "null"}

\* the elements the path without batch processing tags
PlainElements(section_data) ==
    {k \in DOMAIN section_data.d : ~IsComplex(section_data.d[k])}

\* the entry of one element on the batch path
BatchEntry(cache, element_name, element_value, section_type) ==
    LET cache_key == CacheKey(element_name, section_type)
    IN  IF cache_key \in DOMAIN cache
        THEN [value        |-> element_value,
              tags         |-> IF "tags" \in DOMAIN cache[cache_key]
                               THEN cache[cache_key].tags ELSE <<>>,
              is_mandatory |-> IF "is_mandatory" \in DOMAIN cache[cache_key]
                               THEN cache[cache_key].is_mandatory ELSE FALSE]
        ELSE [value        |-> element_value,
              tags         |-> FindTags(element_name),
              is_mandatory |-> element_name \in mandatory_fields]

\* the cache after the batch path: one entry of tags and is_mandatory for each
\* tagged element whose key was not cached
BatchCache(cache, section_data, section_type) ==
    LET added == {k \in BatchElements(section_data) :
                     CacheKey(k, section_type) \notin DOMAIN cache}
        NameOf(key) == CHOOSE k \in added : CacheKey(k, section_type) = key
    IN  [key \in DOMAIN cache \cup {CacheKey(k, section_type) : k \in added} |->
            IF key \in DOMAIN cache THEN cache[key]
            ELSE [tags         |-> FindTags(NameOf(key)),
                  is_mandatory |-> NameOf(key) \in mandatory_fields]]

\* tagged_section before the performance block: meta_tags, then one entry for
\* each tagged element (an element named meta_tags replaces the meta tags)
TaggedElements(cache, meta_tags, section_data, section_type, use_batch_processing) ==
    LET elements == IF use_batch_processing THEN BatchElements(section_data)
                    ELSE PlainElements(section_data)
    IN  [k \in {"meta_tags"} \cup elements |->
            IF k \notin elements THEN meta_tags
            ELSE IF use_batch_processing
                 THEN BatchEntry(cache, k, section_data.d[k], section_type)
                 ELSE [value |-> section_data.d[k], tags |-> FindExactTags(k)]]

\* tag_statement_section: the cache after the call and the dictionary returned
tag_statement_section(cache, section_name, section_data, use_batch_processing) ==
    LET meta_tags == MetaTags(section_name)
        section_type == StatementType(SectionLower(section_name))
        tagged_section == TaggedElements(cache, meta_tags, section_data,
                                         section_type, use_batch_processing)
    IN  IF SectionLowerRaises(section_name)
        THEN [cache    |-> cache,
              returned |-> [section_name   |-> section_name,
                            critical_error |-> "AttributeError",
                            _performance   |->
                                [section_name       |-> section_name,
                                 processing_time_ms |-> 0,
                                 status             |-> "critical_failure"]]]
        ELSE IF InvalidSectionData(section_data)
        THEN [cache    |-> cache,
              returned |-> [section_name |-> section_name,
                            error        |-> "Invalid section data",
                            meta_tags    |-> meta_tags,
                            _performance |->
                                [section_name          |-> section_name,
                                 statement_type        |-> section_type,
                                 elements_processed    |-> 0,
                                 processing_time_ms    |-> 0,
                                 batch_processing_used |-> use_batch_processing,
                                 status                |-> "error"]]]
        ELSE [cache    |-> IF use_batch_processing
                           THEN BatchCache(cache, section_data, section_type)
                           ELSE cache,
              returned |-> SetItem(tagged_section, "_performance",
                                [section_name          |-> section_name,
                                 statement_type        |-> section_type,
                                 elements_processed    |-> Cardinality(DOMAIN section_data.d),
                                 processing_time_ms    |-> 0,
                                 batch_processing_used |-> use_batch_processing,
                                 status                |->
                                     IF "_error" \notin DOMAIN tagged_section
                                     THEN "success" ELSE "partial_failure"])]

\* a call of one of the two tools, with its arguments
ElementCall(element_name, value, section_type) ==
    [tool |-> "apply_tags_to_element", name |-> Str(Chars(element_name)),
     value |-> value, statement_type |-> section_type,
     use_batch_processing |-> FALSE]

SectionCall(section_name, section_data, use_batch_processing) ==
    [tool |-> "tag_statement_section", name |-> section_name,
     value |-> section_data, statement_type |-> "",
     use_batch_processing |-> use_batch_processing]

\* the number of tool calls in a run
MaxCalls == 3

\* one call of apply_tags_to_element
TagElement(element_name, value, section_type) ==
    /\ pc = "tagging"
    /\ Len(tagging_calls) < MaxCalls
    /\ LET r == apply_tags_to_element(tags_cache, element_name, value, section_type)
       IN  /\ tags_cache' = r.cache
           /\ tagged' = Append(tagged, r.returned)
    /\ tagging_calls' = Append(tagging_calls,
                               ElementCall(element_name, value, section_type))
    /\ UNCHANGED <<data, pc, errors, taxonomy_version, result, raised,
                   matcherVars, extractorVars, storageVars, tagging_threads,
                   workflowVars, updateVars>>

\* one call of tag_statement_section
TagSection(section_name, section_data, use_batch_processing) ==
    /\ pc = "tagging"
    /\ Len(tagging_calls) < MaxCalls
    /\ LET r == tag_statement_section(tags_cache, section_name, section_data,
                                      use_batch_processing)
       IN  /\ tags_cache' = r.cache
           /\ tagged' = Append(tagged, r.returned)
    /\ tagging_calls' = Append(tagging_calls,
                               SectionCall(section_name, section_data,
                                           use_batch_processing))
    /\ UNCHANGED <<data, pc, errors, taxonomy_version, result, raised,
                   matcherVars, extractorVars, storageVars, tagging_threads,
                   workflowVars, updateVars>>

\* the element names and statement types of the calls; the last two pairs
\* give the same cache key
ElementKeys ==
    { <<"Revenue", "income_statement">>, <<"revenue", "income_statement">>,
      <<"Zzz", "income_statement">>,
      <<"Assets", "x:balance_sheet">>, <<"Assets:x", "balance_sheet">> }

ElementValues == {Num(100), Num(200)}

sIncomeStatement == Str(Chars("incomeStatement"))
sFinancialPosition == Str(Chars("statementOfFinancialPosition"))

\* the section calls: section name, section data, use_batch_processing
SectionCalls ==
    { <<sIncomeStatement,
        Dict([k \in {"Revenue", "note", "parts"} |->
                 CASE k = "Revenue" -> Num(300)
                   [] k = "note"    -> Null
                   [] k = "parts"   -> Dict([j \in {"Zzz"} |-> Num(1)])]), TRUE>>,
      <<sIncomeStatement, Dict([k \in {"Revenue", "note"} |->
                 IF k = "Revenue" THEN Num(300) ELSE Null]), FALSE>>,
      <<sIncomeStatement, Dict([k \in {"revenue"} |-> Str(Chars("n/a"))]), TRUE>>,
      <<sFinancialPosition, Dict([k \in {"Assets:x"} |-> Num(300)]), TRUE>>,
      <<sIncomeStatement, Dict([k \in {"_error", "meta_tags"} |-> Num(1)]), TRUE>>,
      <<sIncomeStatement, Dict(EmptyDict), TRUE>>,
      <<sFinancialPosition, Null, FALSE>>,
      <<Str(Chars("RevenueAbstract")), Num(7), TRUE>>,
      <<Null, Dict([k \in {"Zzz"} |-> Num(1)]), TRUE>>,
      <<Num(5), Dict([k \in {"Revenue"} |-> Num(300)]), TRUE>> }

\* the module is imported: the cache is empty and no tool was called
InitTagger ==
    /\ pc = "tagging"
    /\ tags_cache = EmptyDict
    /\ tagging_calls = <<>>
    /\ tagged = <<>>
    /\ tagging_threads = Idle
    /\ ValidatorIdle /\ MatcherIdle /\ ExtractorIdle /\ StorageIdle /\ WorkflowIdle /\ UpdateIdle

NextTagger ==
    \/ \E key \in ElementKeys, value \in ElementValues :
           TagElement(key[1], value, key[2])
    \/ \E call \in SectionCalls : TagSection(call[1], call[2], call[3])

SpecTagger == InitTagger /\ [][NextTagger]_vars

\* the calls of apply_tags_to_element made so far
ElementCallsMade ==
    {i \in 1..Len(tagging_calls) : tagging_calls[i].tool = "apply_tags_to_element"}

\* the calls of tag_statement_section made so far
SectionCallsMade ==
    {i \in 1..Len(tagging_calls) : tagging_calls[i].tool = "tag_statement_section"}

\* two calls for the same element name and statement type
SameElement(i, j) ==
    /\ tagging_calls[i].name = tagging_calls[j].name
    /\ tagging_calls[i].statement_type = tagging_calls[j].statement_type

\* the result of the i-th call carries the value passed to that call
CarriesItsValue(i) ==
    /\ "value" \in DOMAIN tagged[i]
    /\ tagged[i]["value"] = tagging_calls[i].value

\* C18: two calls of tag_element with the same field name and statement type
\* return the same tags, and the result of each call of tag_element carries
\* the value passed to that call, whatever was cached before it.
C18_SameTagsOwnValue ==
    pc = "tagging" =>
        /\ \A i \in ElementCallsMade : CarriesItsValue(i)
        /\ \A i, j \in ElementCallsMade :
               SameElement(i, j) => tagged[i].tags = tagged[j].tags

\* C18: a second call for the same element and statement type was answered
\* from the cache, with another value than the first call's
C18_Witness ==
    /\ pc = "tagging"
    /\ \E i, j \in ElementCallsMade :
           /\ i < j
           /\ SameElement(i, j)
           /\ tagging_calls[i].value # tagging_calls[j].value
           /\ tagged[i].tags # <<>>

\* the keys of the record tag_element is specified to return
ElementResultKeys == {"element_name", "value", "tags", "is_mandatory", "messages"}

\* C19: every call of tag_element returns a record with the field name, the
\* value, the tags, is_mandatory and messages, whatever calls came before it.
C19_ElementResultComplete ==
    pc = "tagging" =>
        \A i \in ElementCallsMade : ElementResultKeys \subseteq DOMAIN tagged[i]

\* the statuses a performance block is specified to have
SectionStatuses == {"success", "partial_failure", "critical_failure"}

\* C20: every call of tag_section returns a result with a _performance block
\* that has elements_processed, processing_time_ms and a status of success,
\* partial_failure or critical_failure.
C20_PerformanceBlockComplete ==
    pc = "tagging" =>
        \A i \in SectionCallsMade :
            /\ "_performance" \in DOMAIN tagged[i]
            /\ {"elements_processed", "processing_time_ms", "status"}
                   \subseteq DOMAIN tagged[i]["_performance"]
            /\ tagged[i]["_performance"].status \in SectionStatuses

\* the fields of a section call whose value is null
NullFields(call) ==
    {k \in DOMAIN call.value.d : call.value.d[k].t = "null"}

\* C21: tag_section skips null-valued entries: the result of a call has no
\* entry for any field of the section data whose value is null.
C21_NullEntriesSkipped ==
    pc = "tagging" =>
        \A i \in SectionCallsMade :
            \A k \in NullFields(tagging_calls[i]) : k \notin DOMAIN tagged[i]

\* what the i-th call returns when it is made with an empty cache
WithEmptyCache(i) ==
    LET call == tagging_calls[i]
    IN  IF call.tool = "apply_tags_to_element"
        THEN apply_tags_to_element(EmptyDict, Text(call.name.c), call.value,
                                   call.statement_type).returned
        ELSE tag_statement_section(EmptyDict, call.name, call.value,
                                   call.use_batch_processing).returned

\* C29: the cache is transparent: every call of tag_element returns the tags
\* and the mandatory flag it returns with an empty cache, and every call of
\* tag_section returns the entries it returns with an empty cache.
C29_CacheTransparent ==
    pc = "tagging" =>
        /\ \A i \in ElementCallsMade :
               /\ tagged[i].tags = WithEmptyCache(i).tags
               /\ tagged[i].is_mandatory = WithEmptyCache(i).is_mandatory
        /\ \A i \in SectionCallsMade : tagged[i] = WithEmptyCache(i)

\* the tagged entries of a result: the tags of each element of the section
\* data that has an entry
EntryTags(returned, section_data) ==
    [k \in DOMAIN returned \cap DOMAIN section_data.d |-> returned[k].tags]

\* a step that is a call of tag_statement_section returns the entries that
\* the call returns, from the same cache, with the other use_batch_processing
SameEntriesEitherWay ==
    (/\ pc = "tagging"
     /\ Len(tagging_calls') = Len(tagging_calls) + 1
     /\ tagging_calls'[Len(tagging_calls')].tool = "tag_statement_section")
    => LET call == tagging_calls'[Len(tagging_calls')]
           other == tag_statement_section(tags_cache, call.name, call.value,
                                          ~call.use_batch_processing).returned
       IN  EntryTags(tagged'[Len(tagged')], call.value)
               = EntryTags(other, call.value)

\* C30: tag_section produces the same tagged entries, the same element keys
\* and the same tags for each key, whether use_batch_processing is true or
\* false.
C30_BatchEquivalent == [][SameEntriesEitherWay]_vars

\* ---------------------------------------------------------------------------
\* Part IV, concurrent: several calls of the two tools run in threads that
\* share _tags_cache.  A dictionary operation is one step; the work a call
\* does between two of them touches nothing shared.
\* ---------------------------------------------------------------------------

\* the number of threads
NumThreads == 2

Threads == 1..NumThreads

\* the calls the threads make; the second and the third element calls and the
\* second section call give the same cache key
RaceCalls ==
    { ElementCall("Revenue", Num(100), "income_statement"),
      ElementCall("Assets", Num(100), "x:balance_sheet"),
      ElementCall("Assets:x", Num(200), "balance_sheet"),
      SectionCall(sIncomeStatement,
                  Dict([k \in {"Revenue", "note"} |->
                           IF k = "Revenue" THEN Num(300) ELSE Null]), TRUE),
      SectionCall(sFinancialPosition, Dict([k \in {"Assets:x"} |-> Num(300)]), TRUE) }

\* the elements of a set, one after the other
RECURSIVE InOrder(_)
InOrder(S) ==
    IF S = {} THEN <<>>
    ELSE LET e == CHOOSE x \in S : TRUE IN <<e>> \o InOrder(S \ {e})

\* the elements a call looks up in the cache, in the order it does
Lookups(call) ==
    IF call.tool = "apply_tags_to_element" THEN << Text(call.name.c) >>
    ELSE IF SectionLowerRaises(call.name) \/ InvalidSectionData(call.value)
            \/ ~call.use_batch_processing
         THEN <<>>
         ELSE InOrder(BatchElements(call.value))

\* the statement type of the cache keys of a call
KeyType(call) ==
    IF call.tool = "apply_tags_to_element" THEN call.statement_type
    ELSE StatementType(SectionLower(call.name))

\* the thread's next cache key
NextKey(t) == CacheKey(Head(tagging_threads[t].todo), KeyType(tagging_calls[t]))

\* the thread has looked up one more element; after the last one a section
\* call adds its performance block and the call returns
Advance(t, partial) ==
    LET call == tagging_calls[t]
        todo == Tail(tagging_threads[t].todo)
        done == todo = <<>>
    IN  /\ tagging_threads' =
               [tagging_threads EXCEPT ![t] =
                   [pc |-> IF done THEN "done" ELSE "check", todo |-> todo,
                    partial |-> IF done THEN EmptyDict ELSE partial]]
        /\ tagged' =
               [tagged EXCEPT ![t] =
                   IF ~done THEN @
                   ELSE IF call.tool = "apply_tags_to_element" THEN partial
                   ELSE SetItem(partial, "_performance",
                            tag_statement_section(EmptyDict, call.name, call.value,
                                TRUE).returned["_performance"])]

\* if cache_key in _tags_cache
CheckCache(t) ==
    /\ pc = "racing"
    /\ tagging_threads[t].pc = "check"
    /\ tagging_threads' =
           [tagging_threads EXCEPT ![t].pc =
               IF NextKey(t) \in DOMAIN tags_cache THEN "read" ELSE "populate"]
    /\ UNCHANGED <<tags_cache, tagging_calls, tagged>>
    /\ UNCHANGED <<data, pc, errors, taxonomy_version, result, raised,
                   matcherVars, extractorVars, storageVars,
                   workflowVars, updateVars>>

\* a hit: the entry is read from the cache
ReadCache(t) ==
    /\ pc = "racing"
    /\ tagging_threads[t].pc = "read"
    /\ LET call == tagging_calls[t]
           e == Head(tagging_threads[t].todo)
       IN  IF call.tool = "apply_tags_to_element"
           THEN Advance(t, CachedResult(tags_cache[NextKey(t)], call.value))
           ELSE Advance(t, SetItem(tagging_threads[t].partial, e,
                               BatchEntry(tags_cache, e, call.value.d[e], KeyType(call))))
    /\ UNCHANGED <<tags_cache, tagging_calls>>
    /\ UNCHANGED <<data, pc, errors, taxonomy_version, result, raised,
                   matcherVars, extractorVars, storageVars,
                   workflowVars, updateVars>>

\* a miss: the tags are computed and the entry is stored in the cache
PopulateCache(t) ==
    /\ pc = "racing"
    /\ tagging_threads[t].pc = "populate"
    /\ LET call == tagging_calls[t]
           e == Head(tagging_threads[t].todo)
           key == NextKey(t)
           alone == apply_tags_to_element(EmptyDict, e, call.value, KeyType(call))
       IN  IF call.tool = "apply_tags_to_element"
           THEN /\ Advance(t, alone.returned)
                /\ tags_cache' = SetItem(tags_cache, key, alone.cache[key])
           ELSE /\ Advance(t, SetItem(tagging_threads[t].partial, e,
                                  BatchEntry(EmptyDict, e, call.value.d[e], KeyType(call))))
                /\ tags_cache' = SetItem(tags_cache, key,
                                     BatchCache(EmptyDict, Dict([k \in {e} |-> call.value.d[e]]),
                                                KeyType(call))[key])
    /\ UNCHANGED tagging_calls
    /\ UNCHANGED <<data, pc, errors, taxonomy_version, result, raised,
                   matcherVars, extractorVars, storageVars,
                   workflowVars, updateVars>>

\* each thread has entered its call and is about to look up its first element
InitRace ==
    /\ pc = "racing"
    /\ tags_cache = EmptyDict
    /\ tagging_calls \in [Threads -> RaceCalls]
    /\ tagging_threads =
           [t \in Threads |->
               [pc |-> "check", todo |-> Lookups(tagging_calls[t]),
                partial |-> IF tagging_calls[t].tool = "apply_tags_to_element"
                            THEN EmptyDict
                            ELSE [k \in {"meta_tags"} |-> MetaTags(tagging_calls[t].name)]]]
    /\ tagged = [t \in Threads |-> EmptyDict]
    /\ ValidatorIdle /\ MatcherIdle /\ ExtractorIdle /\ StorageIdle /\ WorkflowIdle /\ UpdateIdle

NextRace ==
    \E t \in Threads :
        \/ CheckCache(t)
        \/ ReadCache(t)
        \/ PopulateCache(t)

SpecRace == InitRace /\ [][NextRace]_vars

\* every thread has returned
AllReturned == \A t \in Threads : tagging_threads[t].pc = "done"

\* the orders in which the threads can run one after the other
Orders == {o \in [Threads -> Threads] : \A s, t \in Threads : o[s] = o[t] => s = t}

\* the cache after the calls of the threads o[i], o[i+1], ... ran one after
\* the other from the given cache
RECURSIVE CacheAfter(_, _, _)
CacheAfter(cache, o, i) ==
    IF i > NumThreads THEN cache
    ELSE LET call == tagging_calls[o[i]]
         IN  CacheAfter(IF call.tool = "apply_tags_to_element"
                        THEN apply_tags_to_element(cache, Text(call.name.c), call.value,
                                                   call.statement_type).cache
                        ELSE tag_statement_section(cache, call.name, call.value,
                                                   call.use_batch_processing).cache,
                        o, i + 1)

\* what the call of thread t returns when it runs alone
Alone(t) ==
    LET call == tagging_calls[t]
    IN  IF call.tool = "apply_tags_to_element"
        THEN apply_tags_to_element(EmptyDict, Text(call.name.c), call.value,
                                   call.statement_type).returned
        ELSE tag_statement_section(EmptyDict, call.name, call.value,
                                   call.use_batch_processing).returned

\* the result of thread t has the tags and the mandatory flag of Alone(t)
SameAsAlone(t) ==
    IF tagging_calls[t].tool = "apply_tags_to_element"
    THEN /\ tagged[t].tags = Alone(t).tags
         /\ tagged[t].is_mandatory = Alone(t).is_mandatory
    ELSE /\ DOMAIN tagged[t] = DOMAIN Alone(t)
         /\ \A e \in BatchElements(tagging_calls[t].value) :
                /\ tagged[t][e].tags = Alone(t)[e].tags
                /\ tagged[t][e].is_mandatory = Alone(t)[e].is_mandatory

\* C22: under every interleaving of the check and populate steps of
\* concurrent calls, each call returns the tags and the mandatory flag it
\* returns running alone, and the cache ends with, for each key, an entry
\* that the calls store when run one after the other in some order.
C22_RaceOnlyDuplicatesWork ==
    (pc = "racing" /\ AllReturned) =>
        /\ \A t \in Threads : SameAsAlone(t)
        /\ \A key \in DOMAIN tags_cache :
               \E o \in Orders :
                   /\ key \in DOMAIN CacheAfter(EmptyDict, o, 1)
                   /\ tags_cache[key] = CacheAfter(EmptyDict, o, 1)[key]

\* ---------------------------------------------------------------------------
\* Part V: the workflow orchestrator
\* (src/xbrl_mapping/services/processors/workflow.py) with the input validator
\* it calls (src/xbrl_mapping/services/validators/mapping_validator.py).  One
\* call of process_financial_data is followed step by step, together with the
\* background thread it may start; the task row is the only thing they share.
\* ---------------------------------------------------------------------------

\* one entry of ValidationResult.errors
Err(section, message) == [section |-> section, message |-> message]

\* float(s) accepts the string: blanks around, a sign, digits with at most
\* one point (the strings of the model's documents have no other form)
FloatParses(cs) ==
    LET s == Strip(cs)
        body == IF s # <<>> /\ s[1] \in {"+", "-"} THEN Tail(s) ELSE s
    IN  /\ \A i \in 1..Len(body) : body[i] \in DigitChars \cup {"."}
        /\ Cardinality({i \in 1..Len(body) : body[i] = "."}) <= 1
        /\ \E i \in 1..Len(body) : body[i] \in DigitChars

\* XBRLValidator._is_numeric
_is_numeric(value) ==
    CASE value.t = "null" -> FALSE
      [] value.t = "num"  -> TRUE
      [] value.t = "str"  -> FloatParses(value.c)
      [] value.t = "dict" -> FALSE

\* XBRLValidator._validate_date
ValidDate(date_str) ==
    /\ Truthy(date_str)
    /\ date_str.t = "str"
    /\ ReMatch(date_pattern, date_str.c)

\* one error, with the message made for the name, for each name of the
\* sequence that is in the set
RECURSIVE ErrorsFor(_, _, _, _, _)
ErrorsFor(names, bad, section, before, after) ==
    IF names = <<>> THEN <<>>
    ELSE (IF Head(names) \in bad
          THEN << Err(section, before \o Head(names) \o after) >> ELSE <<>>)
         \o ErrorsFor(Tail(names), bad, section, before, after)

\* 1. the required top-level sections
StructureErrors(d) ==
    ErrorsFor(<<"filingInformation", "statementOfFinancialPosition", "incomeStatement">>,
              {s \in {"filingInformation", "statementOfFinancialPosition",
                      "incomeStatement"} : s \notin DOMAIN d},
              "structure", "Missing required section: ", "")

\* 2. filingInformation
FilingErrors(d) ==
    IF "filingInformation" \notin DOMAIN d THEN <<>>
    ELSE IF d["filingInformation"].t # "dict"
    THEN << Err("filingInformation", "Filing information must be an object") >>
    ELSE LET filing_info == d["filingInformation"].d
             required == <<"NameOfCompany", "UniqueEntityNumber",
                           "CurrentPeriodStartDate", "CurrentPeriodEndDate">>
             dates == <<"CurrentPeriodStartDate", "CurrentPeriodEndDate">>
             Given(f) == f \in DOMAIN filing_info /\ Truthy(filing_info[f])
         IN  ErrorsFor(required, {f \in Range(required) : ~Given(f)},
                       "filingInformation", "Missing required field: ", "")
             \o ErrorsFor(dates,
                          {f \in Range(dates) : Given(f) /\ ~ValidDate(filing_info[f])},
                          "filingInformation", "Field ",
                          " must be a valid date in YYYY-MM-DD format")

\* 3. statementOfFinancialPosition
FinancialPositionErrors(d) ==
    IF "statementOfFinancialPosition" \notin DOMAIN d THEN <<>>
    ELSE IF d["statementOfFinancialPosition"].t # "dict"
    THEN << Err("statementOfFinancialPosition",
                "Statement of financial position must be an object") >>
    ELSE LET sof_data == d["statementOfFinancialPosition"].d
             components == <<"currentAssets", "nonCurrentAssets", "currentLiabilities",
                             "nonCurrentLiabilities", "equity">>
             numeric == <<"Assets", "Liabilities">>
         IN  ErrorsFor(components, {c \in Range(components) : c \notin DOMAIN sof_data},
                       "statementOfFinancialPosition", "Missing required component: ", "")
             \o ErrorsFor(numeric,
                          {f \in Range(numeric) :
                              f \in DOMAIN sof_data /\ ~_is_numeric(sof_data[f])},
                          "statementOfFinancialPosition", "Field ", " must be a number")

\* 4. incomeStatement
IncomeErrors(d) ==
    IF "incomeStatement" \notin DOMAIN d THEN <<>>
    ELSE IF d["incomeStatement"].t # "dict"
    THEN << Err("incomeStatement", "Income statement must be an object") >>
    ELSE LET income_data == d["incomeStatement"].d
             required == <<"Revenue", "ProfitLoss">>
             numeric == <<"Revenue", "ProfitLoss", "ProfitLossBeforeTaxation">>
         IN  ErrorsFor(required, {f \in Range(required) : f \notin DOMAIN income_data},
                       "incomeStatement", "Missing required field: ", "")
             \o ErrorsFor(numeric,
                          {f \in Range(numeric) :
                              f \in DOMAIN income_data /\ ~_is_numeric(income_data[f])},
                          "incomeStatement", "Field ", " must be a number")

\* XBRLValidator.validate: the ValidationResult
validate(input) ==
    IF ~Truthy(input) \/ input.t # "dict"
    THEN [is_valid |-> FALSE,
          errors   |-> << Err("root", "Data must be a non-empty dictionary") >>]
    ELSE LET found == StructureErrors(input.d) \o FilingErrors(input.d)
                      \o FinancialPositionErrors(input.d) \o IncomeErrors(input.d)
         IN  [is_valid |-> Len(found) = 0, errors |-> found]

\* the values of TaskStatus.status
PENDING == "PENDING"
PROCESSING == "PROCESSING"
COMPLETED == "COMPLETED"
FAILED == "FAILED"

\* str(uuid.uuid4()): the id of the one task that is followed
TaskId == "task-1"

\* no row of TaskStatus for the task
NoRow == [exists |-> FALSE, status |-> "", result_id |-> "", error_message |-> ""]

\* TaskStatus.objects.create(id=..., status=TaskStatus.PENDING)
PendingRow == [exists |-> TRUE, status |-> PENDING, result_id |-> "", error_message |-> ""]

\* a row saved without the change of status
RowUnchanged(row) == row

\* task_status.status = TaskStatus.PROCESSING; task_status.save()
ProcessingRow(row) == [row EXCEPT !.status = PROCESSING]

\* a row saved as pending again
RowReset(row, filing_id) == [row EXCEPT !.status = PENDING]

\* task_status.status = TaskStatus.COMPLETED with its result_id, saved
CompletedRow(row, filing_id) == [row EXCEPT !.status = COMPLETED, !.result_id = filing_id]

\* task_status.status = TaskStatus.FAILED with its error_message, saved; the
\* same columns as TaskStatus.objects.filter(id=...).update(...) sets, which
\* changes nothing when there is no row
FailedRow(row, error_message) ==
    IF row.exists
    THEN [row EXCEPT !.status = FAILED, !.error_message = error_message]
    ELSE row

\* the hexadecimal digits
HexChars == DigitChars \cup {"a", "b", "c", "d", "e", "f", "A", "B", "C", "D", "E", "F"}

\* uuid.UUID(hex) returns: 32 hexadecimal digits are left once the hyphens
\* are taken out (the ids of the model have no braces and no urn prefix)
UuidParses(hex) ==
    LET digits == SelectSeq(Chars(hex), LAMBDA ch : ch # "-")
    IN  Len(digits) = 32 /\ \A i \in 1..32 : digits[i] \in HexChars

\* WorkflowResult
WorkflowResult(success, message, payload, error, status_code) ==
    [success |-> success, task_id |-> TaskId, message |-> message,
     data |-> payload, error |-> error, status_code |-> status_code]

\* the step after the validation without a look at its result
AlwaysAccept(validation_result) == "mark"

\* if not validation_result.is_valid: the step after the validation
AfterValidation(validation_result) ==
    IF validation_result.is_valid THEN "mark" ELSE "reject"

\* TaskStatus.objects.create(...)
CreateTask ==
    /\ pc = "workflow"
    /\ request_thread.pc = "create"
    /\ task_status' = PendingRow
    /\ request_thread' = [request_thread EXCEPT !.pc = "validate"]
    /\ UNCHANGED <<workflow_call, background_thread, workflow_log>>
    /\ UNCHANGED <<data, pc, errors, taxonomy_version, result, raised,
                   matcherVars, extractorVars, storageVars, taggerVars, updateVars>>

\* validation_result = self.validator.validate(data)
ValidateInput ==
    /\ pc = "workflow"
    /\ request_thread.pc = "validate"
    /\ request_thread' =
           [request_thread EXCEPT !.pc = AfterValidation(validate(workflow_call.data))]
    /\ UNCHANGED <<workflow_call, task_status, background_thread, workflow_log>>
    /\ UNCHANGED <<data, pc, errors, taxonomy_version, result, raised,
                   matcherVars, extractorVars, storageVars, taggerVars, updateVars>>

\* the validation failed: the task is saved as failed and the call returns 400
RejectInput ==
    /\ pc = "workflow"
    /\ request_thread.pc = "reject"
    /\ task_status' = FailedRow(task_status, "validation errors")
    /\ request_thread' =
           [pc |-> "done",
            returned |-> WorkflowResult(FALSE, "Financial data validation failed", "",
                                        validate(workflow_call.data).errors, 400)]
    /\ UNCHANGED <<workflow_call, background_thread, workflow_log>>
    /\ UNCHANGED <<data, pc, errors, taxonomy_version, result, raised,
                   matcherVars, extractorVars, storageVars, taggerVars, updateVars>>

\* task_status.status = TaskStatus.PROCESSING; task_status.save(), on either
\* branch of use_fast_response
MarkProcessing ==
    /\ pc = "workflow"
    /\ request_thread.pc = "mark"
    /\ task_status' = ProcessingRow(task_status)
    /\ request_thread' =
           [request_thread EXCEPT
               !.pc = IF workflow_call.use_fast_response THEN "start" ELSE "process"]
    /\ UNCHANGED <<workflow_call, background_thread, workflow_log>>
    /\ UNCHANGED <<data, pc, errors, taxonomy_version, result, raised,
                   matcherVars, extractorVars, storageVars, taggerVars, updateVars>>

\* self._process_async(data, task_id): Thread(...).start()
StartThread ==
    /\ pc = "workflow"
    /\ request_thread.pc = "start"
    /\ background_thread' = [background_thread EXCEPT !.pc = "process"]
    /\ workflow_log' = [workflow_log EXCEPT !.threads_started = @ + 1,
                                            !.status_at_start = task_status.status]
    /\ request_thread' = [request_thread EXCEPT !.pc = "accept"]
    /\ UNCHANGED <<workflow_call, task_status>>
    /\ UNCHANGED <<data, pc, errors, taxonomy_version, result, raised,
                   matcherVars, extractorVars, storageVars, taggerVars, updateVars>>

\* the fast response: 202 with the task id
Accept ==
    /\ pc = "workflow"
    /\ request_thread.pc = "accept"
    /\ request_thread' =
           [pc |-> "done",
            returned |-> WorkflowResult(TRUE,
                             "Financial data mapping request accepted for processing",
                             [status |-> PROCESSING, task_id |-> TaskId], "", 202)]
    /\ UNCHANGED <<workflow_call, task_status, background_thread, workflow_log>>
    /\ UNCHANGED <<data, pc, errors, taxonomy_version, result, raised,
                   matcherVars, extractorVars, storageVars, taggerVars, updateVars>>

\* result = self.simple_processor.process_sync(data), in the request thread
ProcessInRequest ==
    /\ pc = "workflow"
    /\ request_thread.pc = "process"
    /\ workflow_log' = [workflow_log EXCEPT !.process_sync_calls = @ + 1]
    /\ request_thread' =
           [request_thread EXCEPT
               !.pc = IF workflow_call.outcome.raises THEN "handler" ELSE "save"]
    /\ UNCHANGED <<workflow_call, task_status, background_thread>>
    /\ UNCHANGED <<data, pc, errors, taxonomy_version, result, raised,
                   matcherVars, extractorVars, storageVars, taggerVars, updateVars>>

\* the task is saved with the result of the processing and the call returns;
\* result_id gets the filing id as it is, and the save of an id that is not
\* a UUID may raise (the column type of TaskStatus.result_id decides)
SaveResult ==
    /\ pc = "workflow"
    /\ request_thread.pc = "save"
    /\ LET outcome == workflow_call.outcome
       IN  IF outcome.success
           THEN \/ /\ task_status' = CompletedRow(task_status, outcome.filing_id)
                   /\ request_thread' =
                          [pc |-> "done",
                           returned |-> WorkflowResult(TRUE, "Financial data processed",
                                                       outcome, "", 200)]
                \/ /\ ~UuidParses(outcome.filing_id)
                   /\ request_thread' = [request_thread EXCEPT !.pc = "handler"]
                   /\ UNCHANGED task_status
           ELSE /\ task_status' = FailedRow(task_status, outcome.error)
                /\ request_thread' =
                       [pc |-> "done",
                        returned |-> WorkflowResult(FALSE, "Processing failed", outcome,
                                                    outcome.error, 500)]
    /\ UNCHANGED <<workflow_call, background_thread, workflow_log>>
    /\ UNCHANGED <<data, pc, errors, taxonomy_version, result, raised,
                   matcherVars, extractorVars, storageVars, taggerVars, updateVars>>

\* except Exception: the task is updated to failed and the call returns 500
HandleError ==
    /\ pc = "workflow"
    /\ request_thread.pc = "handler"
    /\ task_status' = FailedRow(task_status, "error details")
    /\ request_thread' =
           [pc |-> "done",
            returned |-> WorkflowResult(FALSE, "Failed to process financial data", "",
                                        "error details", 500)]
    /\ UNCHANGED <<workflow_call, background_thread, workflow_log>>
    /\ UNCHANGED <<data, pc, errors, taxonomy_version, result, raised,
                   matcherVars, extractorVars, storageVars, taggerVars, updateVars>>

\* _background_processing_task: result = self.simple_processor.process_sync(data)
BackgroundProcess ==
    /\ pc = "workflow"
    /\ background_thread.pc = "process"
    /\ workflow_log' = [workflow_log EXCEPT !.process_sync_calls = @ + 1]
    /\ background_thread' =
           [background_thread EXCEPT
               !.pc = IF workflow_call.outcome.raises THEN "handler" ELSE "update"]
    /\ UNCHANGED <<workflow_call, task_status, request_thread>>
    /\ UNCHANGED <<data, pc, errors, taxonomy_version, result, raised,
                   matcherVars, extractorVars, storageVars, taggerVars, updateVars>>

\* the inner try of the background task: the row is read, changed and saved;
\* uuid.UUID(filing_id) raises for an id that is not a UUID, the exception
\* is logged and nothing is saved
BackgroundUpdate ==
    /\ pc = "workflow"
    /\ background_thread.pc = "update"
    /\ LET outcome == workflow_call.outcome
       IN  task_status' =
               IF outcome.success
               THEN IF outcome.filing_id # "" /\ ~UuidParses(outcome.filing_id)
                    THEN task_status
                    ELSE CompletedRow(task_status, outcome.filing_id)
               ELSE FailedRow(task_status, outcome.error)
    /\ background_thread' = [background_thread EXCEPT !.pc = "done"]
    /\ UNCHANGED <<workflow_call, request_thread, workflow_log>>
    /\ UNCHANGED <<data, pc, errors, taxonomy_version, result, raised,
                   matcherVars, extractorVars, storageVars, taggerVars, updateVars>>

\* the outer except of the background task: the task is updated to failed
BackgroundFail ==
    /\ pc = "workflow"
    /\ background_thread.pc = "handler"
    /\ task_status' = FailedRow(task_status, "error details")
    /\ background_thread' = [background_thread EXCEPT !.pc = "done"]
    /\ UNCHANGED <<workflow_call, request_thread, workflow_log>>
    /\ UNCHANGED <<data, pc, errors, taxonomy_version, result, raised,
                   matcherVars, extractorVars, storageVars, taggerVars, updateVars>>

sDate == Str(Chars("2024-01-01"))

\* a document the validator accepts
ValidInput ==
    Dict([s \in {"filingInformation", "statementOfFinancialPosition", "incomeStatement"} |->
        CASE s = "filingInformation" ->
                 Dict([f \in {"NameOfCompany", "UniqueEntityNumber",
                              "CurrentPeriodStartDate", "CurrentPeriodEndDate"} |->
                          IF f \in {"NameOfCompany", "UniqueEntityNumber"}
                          THEN Str(sAcme) ELSE sDate])
          [] s = "statementOfFinancialPosition" ->
                 Dict([f \in {"currentAssets", "nonCurrentAssets", "currentLiabilities",
                              "nonCurrentLiabilities", "equity", "Assets"} |->
                          IF f = "Assets" THEN Num(100) ELSE Dict(EmptyDict)])
          [] s = "incomeStatement" ->
                 Dict([f \in {"Revenue", "ProfitLoss"} |->
                          IF f = "Revenue" THEN Str(Chars(" 12.5")) ELSE Num(10)])])

\* the document without one field of one section
WithoutField(doc, section, field) ==
    Dict(With(doc.d, section, Dict(Without(doc.d[section].d, field))))

\* the inputs of process_financial_data
WorkflowInputs ==
    { ValidInput,
      WithField(ValidInput, "filingInformation", "CurrentPeriodEndDate",
                Str(Chars("2024-01-31\n"))),
      WithField(ValidInput, "statementOfFinancialPosition", "Liabilities", Num(0)),
      Null,
      Dict(EmptyDict),
      Num(5),
      Dict([s \in {"filingInformation"} |-> ValidInput.d[s]]),
      Dict(SetItem(ValidInput.d, "incomeStatement", Null)),
      WithField(ValidInput, "filingInformation", "CurrentPeriodStartDate",
                Str(Chars("2024-1-1"))),
      WithField(ValidInput, "filingInformation", "CurrentPeriodStartDate", Num(20240101)),
      WithField(ValidInput, "filingInformation", "NameOfCompany", Str(<<>>)),
      WithField(ValidInput, "incomeStatement", "Revenue", Str(Chars("n/a"))),
      WithField(ValidInput, "incomeStatement", "ProfitLossBeforeTaxation", Null),
      WithField(ValidInput, "statementOfFinancialPosition", "Assets", Dict(EmptyDict)),
      WithoutField(ValidInput, "statementOfFinancialPosition", "equity"),
      WithoutField(ValidInput, "incomeStatement", "ProfitLoss") }

\* what process_sync does when it is called: it returns a result with a
\* filing id that is a UUID or the string of an integer key, a result with
\* an error, or it raises
ProcessOutcomes ==
    { [raises |-> FALSE, success |-> TRUE,
       filing_id |-> "12345678-1234-5678-1234-567812345678", error |-> ""],
      [raises |-> FALSE, success |-> TRUE, filing_id |-> "1", error |-> ""],
      [raises |-> FALSE, success |-> FALSE, filing_id |-> "",
       error |-> "No mapped data was produced"],
      [raises |-> TRUE, success |-> FALSE, filing_id |-> "", error |-> ""] }

\* process_financial_data was called; no row, no thread
InitWorkflow ==
    /\ pc = "workflow"
    /\ workflow_call \in [data : WorkflowInputs, use_fast_response : BOOLEAN,
                          outcome : ProcessOutcomes]
    /\ task_status = NoRow
    /\ request_thread = [pc |-> "create", returned |-> NoRow]
    /\ background_thread = [pc |-> "idle"]
    /\ workflow_log = [threads_started |-> 0, process_sync_calls |-> 0,
                       status_at_start |-> ""]
    /\ ValidatorIdle /\ MatcherIdle /\ ExtractorIdle /\ StorageIdle /\ TaggerIdle
    /\ UpdateIdle

RequestStep ==
    \/ CreateTask
    \/ ValidateInput
    \/ RejectInput
    \/ MarkProcessing
    \/ StartThread
    \/ Accept
    \/ ProcessInRequest
    \/ SaveResult
    \/ HandleError

BackgroundStep ==
    \/ BackgroundProcess
    \/ BackgroundUpdate
    \/ BackgroundFail

NextWorkflow == RequestStep \/ BackgroundStep

SpecWorkflow == InitWorkflow /\ [][NextWorkflow]_vars

\* both threads run whenever they can: neither is starved
SpecWorkflowFair ==
    SpecWorkflow /\ WF_vars(RequestStep) /\ WF_vars(BackgroundStep)

----------------------------------------------------------------------------
(* Properties of the workflow orchestrator                                 *)

\* the validator rejects the input of the call
InputRejected == ~validate(workflow_call.data).is_valid

\* process_financial_data has returned
Returned202 == request_thread.pc = "done" /\ request_thread.returned.status_code = 202

\* C23: when the validation of the input fails, process_financial_data
\* returns a failure with status code 400 that carries the errors of the
\* validator, the task is recorded as FAILED, and process_sync is never
\* called: not in the request thread, and no background thread is started.
C23_RejectedInputNeverProcessed ==
    InputRejected =>
        /\ workflow_log.threads_started = 0
        /\ workflow_log.process_sync_calls = 0
        /\ background_thread.pc = "idle"
        /\ request_thread.pc = "done" =>
               /\ ~request_thread.returned.success
               /\ request_thread.returned.status_code = 400
               /\ request_thread.returned.error = validate(workflow_call.data).errors
               /\ request_thread.returned.error # <<>>
               /\ task_status.exists
               /\ task_status.status = FAILED

\* a call with a document that lacks a section has returned
C23_Witness ==
    /\ InputRejected
    /\ workflow_call.data.t = "dict"
    /\ "incomeStatement" \notin DOMAIN workflow_call.data.d
    /\ request_thread.pc = "done"
    /\ request_thread.returned.status_code = 400
    /\ task_status.status = FAILED

\* C24: for a valid input with the fast response, process_financial_data
\* returns success with status code 202 and the task id; the task was saved
\* as PROCESSING before the background thread was started, and exactly one
\* background thread was started.
C24_AcceptedAfterOneThreadStarted ==
    /\ workflow_log.threads_started <= 1
    /\ workflow_log.threads_started = 1 => workflow_log.status_at_start = PROCESSING
    /\ (~InputRejected /\ workflow_call.use_fast_response /\ request_thread.pc = "done") =>
           /\ request_thread.returned.success
           /\ request_thread.returned.status_code = 202
           /\ request_thread.returned.task_id = TaskId
           /\ request_thread.returned.data.task_id = TaskId
           /\ workflow_log.threads_started = 1
           /\ task_status.exists

\* the call has returned 202 while its background thread has not yet run
C24_Witness ==
    /\ Returned202
    /\ workflow_call.use_fast_response
    /\ workflow_log.threads_started = 1
    /\ background_thread.pc = "process"
    /\ task_status.status = PROCESSING

\* the changes of status that move forward
ForwardMoves ==
    { <<"", PENDING>>,
      <<PENDING, PROCESSING>>, <<PENDING, FAILED>>,
      <<PROCESSING, COMPLETED>>, <<PROCESSING, FAILED>> }

\* a step leaves the status of the task as it is or moves it forward
MovesForward ==
    \/ task_status'.status = task_status.status
    \/ <<task_status.status, task_status'.status>> \in ForwardMoves

\* C25: the status of a task only moves forward (PENDING to PROCESSING or
\* FAILED, PROCESSING to COMPLETED or FAILED); a COMPLETED or FAILED task
\* never changes its status again, whatever the interleaving of the request
\* thread and the background thread.
C25_StatusOnlyMovesForward == [][MovesForward]_vars

\* the background thread has completed the task before the request thread
\* has returned
C25_Witness ==
    /\ task_status.status = COMPLETED
    /\ background_thread.pc = "done"
    /\ request_thread.pc = "accept"

C26_FinishesWithUuid ==
    (Returned202 /\ (workflow_call.outcome.success
                        => UuidParses(workflow_call.outcome.filing_id)))
        ~> (task_status.status \in {COMPLETED, FAILED})

\* ---------------------------------------------------------------------------
\* Part VI: the update processor
\* (src/xbrl_mapping/services/processors/update.py) on one stored filing.
\* The rows of the filing are functions from column names to values; the
\* model keeps the key columns of every row and the data columns listed in
\* Columns.  A call runs in four steps: the preparation of mapped_data, the
\* check of the forbidden fields, the six updates inside transaction.atomic()
\* and the exit of the transaction.
\* ---------------------------------------------------------------------------

\* the sections that process_update_data updates, in its order
UpdateOrder ==
    <<"filing_information", "directors_statement", "audit_report",
      "statement_of_financial_position", "income_statement", "notes">>

\* the components of the statement of financial position and of the notes
position_components ==
    <<"current_assets", "noncurrent_assets", "current_liabilities",
      "noncurrent_liabilities", "equity">>

notes_components ==
    <<"trade_and_other_receivables", "trade_and_other_payables", "revenue">>

\* the rows of one filing; Notes has no revenue attribute, so there is no
\* revenue row to reach
ObjectList ==
    UpdateOrder \o position_components
        \o <<"trade_and_other_receivables", "trade_and_other_payables">>

Objects == Range(ObjectList)

\* FilingInformation.id, a UUID
FilingId == Str(Chars("0a1b2c3d-0000-4000-8000-00000000000e"))

\* the integer key of a row of another model
ObjectId(object) == Num(10 * IndexIn(ObjectList, object))

\* the data columns of the model: FloatField or CharField, null=True or not
Column(kind, null) == [kind |-> kind, null |-> null]

Columns ==
    [o \in Objects |->
        CASE o = "filing_information" ->
                 [company_name |-> Column("char", FALSE),
                  unique_entity_number |-> Column("char", FALSE),
                  parent_entity_name |-> Column("char", TRUE)]
          [] o = "audit_report" -> [audit_opinion |-> Column("char", FALSE)]
          [] o = "statement_of_financial_position" ->
                 [total_assets |-> Column("float", FALSE),
                  total_liabilities |-> Column("float", FALSE)]
          [] o = "current_assets" -> [inventories |-> Column("float", TRUE)]
          [] o = "equity" -> [share_capital |-> Column("float", FALSE)]
          [] o = "income_statement" -> [revenue |-> Column("float", FALSE)]
          [] o = "trade_and_other_receivables" ->
                 [total_trade_and_other_receivables |-> Column("float", FALSE)]
          [] o = "trade_and_other_payables" ->
                 [total_trade_and_other_payables |-> Column("float", FALSE)]
          [] OTHER -> EmptyDict]

\* the columns that hold the key of another row: the filing of every section
\* and the components of a section
KeyColumns(o) ==
    (IF o = "filing_information" THEN {} ELSE {"filing_id"})
    \cup (IF o = "statement_of_financial_position"
          THEN {c \o "_id" : c \in Range(position_components)} ELSE {})
    \cup (IF o = "notes"
          THEN {"trade_and_other_receivables_id", "trade_and_other_payables_id"} ELSE {})

\* the filing as it is stored before the call
StoredRow(o) ==
    [col \in {"id"} \cup KeyColumns(o) \cup DOMAIN Columns[o] |->
        CASE col = "id" -> IF o = "filing_information" THEN FilingId ELSE ObjectId(o)
          [] col = "filing_id" -> FilingId
          [] col \in KeyColumns(o) -> ObjectId(SubSeq(col, 1, Len(col) - 3))
          [] col = "unique_entity_number" -> Str(sUenLocal)
          [] Columns[o][col].kind = "char" -> Str(sAcme)
          [] OTHER -> Num(1000)]

StoredFiling == [o \in Objects |-> StoredRow(o)]

\* str.endswith
EndsWith(s, suffix) ==
    Len(s) >= Len(suffix) /\ SubSeq(s, Len(s) - Len(suffix) + 1, Len(s)) = suffix

\* the decimal digits of a natural number
RECURSIVE NatChars(_)
NatChars(m) ==
    IF m < 10 THEN <<SubSeq("0123456789", m + 1, m + 1)>>
    ELSE NatChars(m \div 10) \o <<SubSeq("0123456789", (m % 10) + 1, (m % 10) + 1)>>

\* str(value): a whole number is printed as an int; the repr of a dict starts
\* with a brace (the dicts given as keys are empty)
PyStr(value) ==
    CASE value.t = "null" -> Chars("None")
      [] value.t = "str"  -> value.c
      [] value.t = "num"  ->
             (IF value.n < 0 THEN <<"-">> ELSE <<>>)
             \o NatChars(Abs(value.n) \div 10)
             \o (IF value.n % 10 = 0 THEN <<>> ELSE <<".">> \o NatChars(Abs(value.n) % 10))
      [] value.t = "dict" -> Chars("{}")

\* iter(value): the keys of a dict, the characters of a string; TypeError for
\* None and for a number
Iter(value) ==
    CASE value.t = "dict" -> Ok(DOMAIN value.d)
      [] value.t = "str"  -> Ok(Range(value.c))
      [] OTHER            -> Raise("TypeError")

\* key in value: a key of a dict, a substring of a string; TypeError for
\* None and for a number
Contains(value, key) ==
    CASE value.t = "dict" -> Ok(key \in DOMAIN value.d)
      [] value.t = "str"  -> Ok(In(Chars(key), value.c))
      [] OTHER            -> Raise("TypeError")

\* value[key]: TypeError for a string, whose indices are integers
Item(value, key) ==
    IF value.t = "dict" THEN Ok(value.d[key]) ELSE Raise("TypeError")

\* field == 'id' or field.endswith('_id'), and field == 'filing' too for the
\* sections and their components
IsKeyField(o, field) ==
    \/ field = "id"
    \/ EndsWith(field, "_id")
    \/ o # "filing_information" /\ field = "filing"

\* str(getattr(obj, field, None)): a column of the row, the filing of a
\* section (an object of a model without __str__), or None
CurrentText(o, row, field) ==
    IF field \in DOMAIN row THEN PyStr(row[field])
    ELSE IF field = "filing" /\ o # "filing_information"
    THEN Chars("FilingInformation object (") \o FilingId.c \o <<")">>
    ELSE Chars("None")

\* the fields of one object that the check reports: the key fields whose
\* text differs from the text of the stored value
ForbiddenOf(path, o, row, object_data) ==
    IF Iter(object_data).x # "" THEN Raise(Iter(object_data).x)
    ELSE Ok({ path \o "." \o field : field \in
                { f \in Iter(object_data).v :
                    /\ IsKeyField(o, f)
                    /\ CurrentText(o, row, f) # PyStr(object_data.d[f]) } })

\* _check_financial_position_components and _check_notes_components: the
\* components that are in the data and have a row
ForbiddenOfComponents(rows, section, section_data, components) ==
    LET has == [c \in Range(components) |-> Contains(section_data, c)]
        found == [c \in Range(components) |->
                    IF has[c].x # "" THEN Raise(has[c].x)
                    ELSE IF ~has[c].v \/ c \notin Objects THEN Ok({})
                    ELSE IF Item(section_data, c).x # "" THEN Raise(Item(section_data, c).x)
                    ELSE ForbiddenOf(section \o "." \o c, c, rows[c], Item(section_data, c).v)]
    IN  IF \E c \in Range(components) : found[c].x # "" THEN Raise("TypeError")
        ELSE Ok(UNION {found[c].v : c \in Range(components)})

\* _check_forbidden_field_modifications: the set of the fields it lists
_check_forbidden_field_modifications(rows, mapped) ==
    LET sections == [s \in Range(UpdateOrder) \cap DOMAIN mapped |->
                  ForbiddenOf(s, s, rows[s], mapped[s])]
        position == IF "statement_of_financial_position" \in DOMAIN mapped
                    THEN ForbiddenOfComponents(rows, "statement_of_financial_position",
                                               mapped["statement_of_financial_position"],
                                               position_components)
                    ELSE Ok({})
        notes == IF "notes" \in DOMAIN mapped
                 THEN ForbiddenOfComponents(rows, "notes", mapped["notes"], notes_components)
                 ELSE Ok({})
    IN  IF \/ \E s \in DOMAIN sections : sections[s].x # ""
           \/ position.x # ""
           \/ notes.x # ""
        THEN Raise("TypeError")
        ELSE Ok(UNION {sections[s].v : s \in DOMAIN sections} \cup position.v \cup notes.v)

\* the reverse accessors of a row: the one-to-one relations that point to it,
\* and the manager of the rows whose ForeignKey points to it
ReverseOneToOne(o) ==
    CASE o = "filing_information" ->
             {"partialxbrl", "directorsstatement", "auditreport", "incomestatement",
              "statementoffinancialposition", "payables", "notes"}
      [] o \in Range(position_components) -> {"statementoffinancialposition"}
      [] o = "trade_and_other_receivables" -> {"notes_receivables"}
      [] o = "trade_and_other_payables" -> {"notes_payables"}
      [] OTHER -> {"partialxbrl"}

ReverseManagers(o) == IF o = "filing_information" THEN {"receivables"} ELSE {}

\* what the loop over the items of the data does with one field: "skip" for a
\* key field, "column" and "pk" for a setattr that save() writes, "method"
\* for a setattr that replaces save, "raise" for a setattr that raises,
\* "none" when hasattr is False or the setattr changes nothing that is stored
SetKind(o, field, value) ==
    IF IsKeyField(o, field) THEN "skip"
    ELSE IF field \in DOMAIN Columns[o] THEN "column"
    ELSE IF field = "pk" THEN "pk"
    ELSE IF field = "save" THEN "method"
    ELSE IF field \in ReverseManagers(o) THEN "raise"
    ELSE IF field \in ReverseOneToOne(o)
    THEN (IF value.t = "null" THEN "none" ELSE "raise")
    ELSE "none"

\* a string of digits
IsDigits(cs) == cs # <<>> /\ \A i \in 1..Len(cs) : cs[i] \in DigitChars

\* int(s) for a string of digits
RECURSIVE DigitsValue(_)
DigitsValue(cs) ==
    IF cs = <<>> THEN 0
    ELSE 10 * DigitsValue(SubSeq(cs, 1, Len(cs) - 1))
         + (CHOOSE v \in 0..9 : NatChars(v) = <<cs[Len(cs)]>>)

\* the value save() writes to a column, or the exception it raises for it
\* (a numeral among the strings of the model's updates is a string of digits)
ColumnStored(column, value) ==
    CASE value.t = "null" -> IF column.null THEN Ok(Null) ELSE Raise("IntegrityError")
      [] column.kind = "float" /\ value.t = "num"  -> Ok(value)
      [] column.kind = "float" /\ value.t = "str"  ->
             IF IsDigits(value.c) THEN Ok(Num(10 * DigitsValue(value.c)))
             ELSE Raise("ValueError")
      [] column.kind = "float" /\ value.t = "dict" -> Raise("TypeError")
      [] column.kind = "char" /\ value.t = "str"   -> Ok(value)
      [] column.kind = "char" -> Ok(Str(PyStr(value)))

\* the transaction at its start: the stored rows, no row inserted, no
\* exception, not marked for rollback
Transaction(rows) ==
    [rows |-> rows, inserted |-> 0, x |-> "", needs_rollback |-> FALSE]

\* a statement outside save() raises: the transaction is not marked
RaiseOutside(st, exception) == [st EXCEPT !.x = exception]

\* save() raises: Model.save_base marks the transaction for rollback
RaiseInSave(st, exception) == [st EXCEPT !.x = exception, !.needs_rollback = TRUE]

\* a pk that names no row of the table can be inserted: None and a whole
\* number for an integer key
InsertablePk(pk) ==
    \/ pk.t = "null"
    \/ pk.t = "num" /\ pk.n > 0 /\ pk.n % 10 = 0
    \/ pk.t = "str" /\ IsDigits(pk.c)

\* obj.save() for the object in memory with its pk.  With the pk of the
\* stored row the row is updated.  With another pk a row is inserted: that
\* violates the unique filing of a one-to-one section and the unique entity
\* number of the filing information, and succeeds for the receivables, whose
\* filing is a ForeignKey; the stored row stays as it is.
Save(st, o, memory, pk) ==
    LET stored == [col \in DOMAIN Columns[o] |-> ColumnStored(Columns[o][col], memory[col])]
        bad == {col \in DOMAIN stored : stored[col].x # ""}
    IN  IF bad # {} THEN RaiseInSave(st, stored[CHOOSE col \in bad : TRUE].x)
        ELSE IF PyStr(pk) = PyStr(st.rows[o]["id"])
        THEN [st EXCEPT !.rows[o] =
                 [col \in DOMAIN memory |->
                     IF col \in DOMAIN stored THEN stored[col].v ELSE memory[col]]]
        ELSE IF o = "trade_and_other_receivables" /\ InsertablePk(pk)
        THEN [st EXCEPT !.inserted = @ + 1]
        ELSE RaiseInSave(st, "IntegrityError")

\* the loop over object_data.items() with its setattr calls, then obj.save()
UpdateObject(st, o, object_data) ==
    IF st.x # "" THEN st
    ELSE IF object_data.t # "dict" THEN RaiseOutside(st, "AttributeError")
    ELSE LET fields == DOMAIN object_data.d
             kind == [f \in fields |-> SetKind(o, f, object_data.d[f])]
             row == st.rows[o]
             memory == [col \in DOMAIN row |->
                           IF col \in fields /\ kind[col] = "column"
                           THEN object_data.d[col] ELSE row[col]]
             pk == IF "pk" \in fields THEN object_data.d["pk"] ELSE row["id"]
         IN  IF \E f \in fields : kind[f] = "raise" THEN RaiseOutside(st, "ValueError")
             ELSE IF \E f \in fields : kind[f] = "method" THEN RaiseOutside(st, "TypeError")
             ELSE Save(st, o, memory, pk)

\* _update_filing_information, _update_directors_statement,
\* _update_audit_report and _update_income_statement
UpdateSection(st, mapped, section) ==
    IF section \in DOMAIN mapped THEN UpdateObject(st, section, mapped[section]) ELSE st

\* the components of a section, one after the other: each that is in the data
\* and has a row is updated and saved
RECURSIVE UpdateComponents(_, _, _)
UpdateComponents(st, section_data, components) ==
    IF components = <<>> \/ st.x # "" THEN st
    ELSE LET c == Head(components)
             has == Contains(section_data, c)
         IN  IF has.x # "" THEN RaiseOutside(st, has.x)
             ELSE IF ~has.v \/ c \notin Objects
             THEN UpdateComponents(st, section_data, Tail(components))
             ELSE IF Item(section_data, c).x # ""
             THEN RaiseOutside(st, Item(section_data, c).x)
             ELSE UpdateComponents(UpdateObject(st, c, Item(section_data, c).v),
                                   section_data, Tail(components))

\* the totals of the position set on the object in memory
RECURSIVE SetTotals(_, _, _)
SetTotals(res, position_data, fields) ==
    IF fields = <<>> \/ res.x # "" THEN res
    ELSE LET field == Head(fields)
             has == Contains(position_data, field)
         IN  IF has.x # "" THEN Raise(has.x)
             ELSE IF ~has.v THEN SetTotals(res, position_data, Tail(fields))
             ELSE IF Item(position_data, field).x # "" THEN Raise(Item(position_data, field).x)
             ELSE SetTotals(Ok([res.v EXCEPT ![field] = Item(position_data, field).v]),
                            position_data, Tail(fields))

\* _update_financial_position
_update_financial_position(st, mapped) ==
    IF st.x # "" \/ "statement_of_financial_position" \notin DOMAIN mapped THEN st
    ELSE LET section == "statement_of_financial_position"
             position_data == mapped[section]
             position == SetTotals(Ok(st.rows[section]), position_data,
                                   <<"total_assets", "total_liabilities">>)
             after == UpdateComponents(st, position_data, position_components)
         IN  IF position.x # "" THEN RaiseOutside(st, position.x)
             ELSE IF after.x # "" THEN after
             ELSE Save(after, section, position.v, st.rows[section]["id"])

\* _update_notes
_update_notes(st, mapped) ==
    IF st.x # "" \/ "notes" \notin DOMAIN mapped THEN st
    ELSE UpdateComponents(st, mapped["notes"], notes_components)

\* one of the six calls of the try block
UpdateEntity(st, mapped, section) ==
    CASE section = "statement_of_financial_position" -> _update_financial_position(st, mapped)
      [] section = "notes" -> _update_notes(st, mapped)
      [] OTHER -> UpdateSection(st, mapped, section)

\* any(key for key in mapped_data.keys() if key[0].isupper())
AnyPascalKey(mapped) ==
    \E key \in DOMAIN mapped : SubSeq(key, 1, 1) \in UpperChars

\* mapped_data as the caller gave it
GivenUen(filing_information, uen) == filing_information

\* mapped_data['filing_information']['unique_entity_number'] = uen
PreserveUen(filing_information, uen) ==
    Dict(SetItem(filing_information.d, "unique_entity_number", uen))

\* the first statements of process_update_data: the translation of PascalCase
\* data, the filing_information that is added when missing, the unique
\* entity number of the stored filing put in its place
PrepareData(rows, given) ==
    LET translated == IF AnyPascalKey(given.d)
                      THEN map_pydantic_to_django_fields(given) ELSE Ok(given)
        mapped == IF "filing_information" \in DOMAIN translated.v.d
                  THEN translated.v.d
                  ELSE SetItem(translated.v.d, "filing_information", Dict(EmptyDict))
    IN  IF translated.x # "" THEN Raise(translated.x)
        ELSE IF mapped["filing_information"].t # "dict" THEN Raise("TypeError")
        ELSE Ok(SetItem(mapped, "filing_information",
                        PreserveUen(mapped["filing_information"],
                                    rows["filing_information"]["unique_entity_number"])))

\* the rows after the exit of `with transaction.atomic()`: the block is left
\* by a return, so the transaction is committed unless it is marked for
\* rollback
AfterAtomic(stored, st) ==
    IF st.needs_rollback THEN stored
    ELSE [rows |-> st.rows, inserted |-> st.inserted]

\* nothing returned yet
NoReturn == [success |-> FALSE, message |-> "", error |-> {}]

\* lines 25-36: mapped_data is prepared; an exception leaves the function
PrepareUpdate ==
    /\ pc = "update"
    /\ update_thread.pc = "prepare"
    /\ LET prepared == PrepareData(stored_filing.rows, update_call.mapped_data)
       IN  update_thread' =
               IF prepared.x # ""
               THEN [update_thread EXCEPT !.pc = "raised"]
               ELSE [update_thread EXCEPT !.pc = "check", !.mapped = prepared.v]
    /\ UNCHANGED <<update_call, stored_filing>>
    /\ UNCHANGED <<data, pc, errors, taxonomy_version, result, raised,
                   matcherVars, extractorVars, storageVars, taggerVars, workflowVars>>

\* lines 39-46: the check of the forbidden fields, and the return when it
\* lists one
CheckForbidden ==
    /\ pc = "update"
    /\ update_thread.pc = "check"
    /\ LET forbidden_fields ==
               _check_forbidden_field_modifications(stored_filing.rows, update_thread.mapped)
       IN  update_thread' =
               IF forbidden_fields.x # ""
               THEN [update_thread EXCEPT !.pc = "raised"]
               ELSE IF forbidden_fields.v # {}
               THEN [update_thread EXCEPT
                        !.pc = "done",
                        !.returned =
                            [success |-> FALSE,
                             message |-> "Modification of ID or relationship fields is not allowed",
                             error |-> forbidden_fields.v]]
               ELSE [update_thread EXCEPT
                        !.pc = "atomic",
                        !.todo = UpdateOrder,
                        !.st = Transaction(stored_filing.rows)]
    /\ UNCHANGED <<update_call, stored_filing>>
    /\ UNCHANGED <<data, pc, errors, taxonomy_version, result, raised,
                   matcherVars, extractorVars, storageVars, taggerVars, workflowVars>>

\* lines 58-63: the next of the six updates, inside the transaction
UpdateNext ==
    /\ pc = "update"
    /\ update_thread.pc = "atomic"
    /\ update_thread.todo # <<>>
    /\ update_thread.st.x = ""
    /\ update_thread' =
           [update_thread EXCEPT
               !.st = UpdateEntity(update_thread.st, update_thread.mapped,
                                   Head(update_thread.todo)),
               !.todo = Tail(update_thread.todo)]
    /\ UNCHANGED <<update_call, stored_filing>>
    /\ UNCHANGED <<data, pc, errors, taxonomy_version, result, raised,
                   matcherVars, extractorVars, storageVars, taggerVars, workflowVars>>

\* lines 65-79: the return from inside the transaction, after the last update
\* or from the except clause, and the exit of the transaction
ExitAtomic ==
    /\ pc = "update"
    /\ update_thread.pc = "atomic"
    /\ update_thread.todo = <<>> \/ update_thread.st.x # ""
    /\ stored_filing' = AfterAtomic(stored_filing, update_thread.st)
    /\ update_thread' =
           [update_thread EXCEPT
               !.pc = "done",
               !.returned =
                   IF update_thread.st.x = ""
                   THEN [success |-> TRUE, message |-> "updated successfully", error |-> {}]
                   ELSE [success |-> FALSE,
                         message |-> "Database transaction failed during update",
                         error |-> {update_thread.st.x}]]
    /\ UNCHANGED update_call
    /\ UNCHANGED <<data, pc, errors, taxonomy_version, result, raised,
                   matcherVars, extractorVars, storageVars, taggerVars, workflowVars>>

sNew == Str(Chars("New"))

sNoDict == Str(Chars("n/a"))

\* an update of one field of the filing information
Filing(field, value) == [k \in {field} |-> value]

\* the data given to process_update_data
Updates ==
    { [filing_information |-> Dict([company_name |-> sNew])],
      [filing_information |->
          Dict([company_name |-> sNew, unique_entity_number |-> Str(sUenOther)])],
      [filing_information |-> Dict([unique_entity_number |-> Str(sUenOther)]),
       audit_report |-> Dict([audit_opinion |-> sNew, filing_id |-> FilingId])],
      [income_statement |-> Dict([revenue |-> Num(2000)])],
      [filing_information |-> Dict([company_name |-> sNew]),
       income_statement |-> sNoDict],
      [filing_information |-> Dict([company_name |-> sNew]),
       income_statement |-> Dict([revenue |-> sNoDict])],
      [filing_information |-> Dict([company_name |-> sNew]),
       directors_statement |-> Dict([partialxbrl |-> sNoDict])],
      [filing_information |-> Dict(Filing("id", sNew))],
      [filing_information |-> Dict(Filing("id", FilingId))],
      [filing_information |-> Dict(Filing("partial_xbrl_id", Null))],
      [filing_information |-> Dict(Filing("pk", sNew))],
      [filing_information |-> Dict(Filing("pk", Null))],
      [filing_information |-> Dict(Filing("company_name", Null))],
      [filing_information |-> Dict(Filing("company_name", Num(50)))],
      [filing_information |-> Dict([parent_entity_name |-> Null, save |-> sNoDict])],
      [filing_information |-> Dict(Filing("receivables", Null))],
      [filing_information |-> Dict([notes |-> Null, filing |-> sNoDict])],
      [filing_information |-> sNoDict],
      [FilingInformation |->
          Dict([NameOfCompany |-> sNew, UniqueEntityNumber |-> Str(sUenOther)])],
      [audit_report |-> Dict(Filing("filing", FilingId))],
      [audit_report |-> Dict([id |-> ObjectId("audit_report"), pk |-> Num(990)])],
      [income_statement |-> Null],
      [income_statement |-> Dict(Filing("filing_id", sNew))],
      [statement_of_financial_position |->
          Dict([total_assets |-> Num(50),
                current_assets |-> Dict([inventories |-> Null]),
                equity |-> Dict([share_capital |-> Null])])],
      [statement_of_financial_position |->
          Dict([current_assets |-> Dict([inventories |-> Num(70)]),
                equity |-> sNoDict])],
      [statement_of_financial_position |->
          Dict([total_liabilities |-> Num(50),
                noncurrent_assets |-> Dict(Filing("pk", ObjectId("noncurrent_assets"))),
                equity |-> Dict([share_capital |-> Num(30)])])],
      [statement_of_financial_position |->
          Dict([id |-> ObjectId("statement_of_financial_position"),
                equity_id |-> Num(990)])],
      [statement_of_financial_position |->
          Dict([equity |-> Dict(Filing("filing", sNew))])],
      [statement_of_financial_position |-> Dict([equity |-> Null])],
      [statement_of_financial_position |-> Str(Chars("total_assets"))],
      [statement_of_financial_position |-> sNoDict, notes |-> sNoDict],
      [notes |->
          Dict([trade_and_other_receivables |->
                    Dict([pk |-> Num(990),
                          total_trade_and_other_receivables |-> Num(50)])])],
      [notes |->
          Dict([trade_and_other_receivables |-> Dict(Filing("pk", sNoDict)),
                trade_and_other_payables |->
                    Dict([total_trade_and_other_payables |-> Num(50)])])],
      [notes |->
          Dict([trade_and_other_receivables |->
                    Dict([total_trade_and_other_receivables |-> Num(50)]),
                trade_and_other_payables |-> Dict(Filing("pk", Num(990)))])],
      [notes |->
          Dict([revenue |-> Null,
                trade_and_other_payables |->
                    Dict([total_trade_and_other_payables |-> Num(50),
                          id |-> Str(PyStr(ObjectId("trade_and_other_payables")))])])],
      [notes |-> Dict([trade_and_other_payables |-> Dict(Filing("notes_payables", sNoDict))]),
       income_statement |-> Dict([revenue |-> Num(2000)])] }

\* process_update_data was called on the stored filing
InitUpdate ==
    /\ pc = "update"
    /\ update_call \in [mapped_data : {Dict(u) : u \in Updates}]
    /\ stored_filing = [rows |-> StoredFiling, inserted |-> 0]
    /\ update_thread = [pc |-> "prepare", mapped |-> EmptyDict, todo |-> <<>>,
                        st |-> Transaction(StoredFiling), returned |-> NoReturn]
    /\ ValidatorIdle /\ MatcherIdle /\ ExtractorIdle /\ StorageIdle /\ TaggerIdle
    /\ WorkflowIdle

NextUpdate ==
    \/ PrepareUpdate
    \/ CheckForbidden
    \/ UpdateNext
    \/ ExitAtomic

SpecUpdate == InitUpdate /\ [][NextUpdate]_vars

----------------------------------------------------------------------------
(* Properties of the update processor                                      *)

\* the columns of a row that identify it or relate it to another row
IdentityColumns(o) ==
    {"id"} \cup KeyColumns(o)
        \cup (IF o = "filing_information" THEN {"unique_entity_number"} ELSE {})

\* process_update_data has returned
UpdateReturned == update_thread.pc = "done"

\* C27: an update never changes the unique entity number of the filing nor
\* an id or a relationship field: whatever process_update_data was given, and
\* whether it succeeds, fails or raises, those columns of the stored filing
\* and of its sections keep the values they had before the call.
C27_KeysAndUenPreserved ==
    \A o \in Objects : \A col \in IdentityColumns(o) :
        stored_filing.rows[o][col] = StoredFiling[o][col]

\* an update that carries another unique entity number has succeeded and
\* has changed the filing
C27_Witness ==
    /\ UpdateReturned
    /\ update_thread.returned.success
    /\ "filing_information" \in DOMAIN update_call.mapped_data.d
    /\ "unique_entity_number" \in DOMAIN update_call.mapped_data.d["filing_information"].d
    /\ update_call.mapped_data.d["filing_information"].d["unique_entity_number"]
           # StoredFiling["filing_information"]["unique_entity_number"]
    /\ stored_filing.rows # StoredFiling

\* C28: process_update_data is all-or-nothing: when it returns success =
\* false, no section of the stored filing differs from its state before the
\* call.
C28_AllOrNothing ==
    (UpdateReturned /\ ~update_thread.returned.success)
        => stored_filing.rows = StoredFiling

\* C28 for the failures that leave the transaction marked for rollback and
\* for the refusals of the check
C28_NothingWhenSaveRaises ==
    (UpdateReturned /\ ~update_thread.returned.success
        /\ (update_thread.st.needs_rollback \/ update_thread.st.x = ""))
        => stored_filing.rows = StoredFiling

====
